---------------------------- MODULE Spec2Model ----------------------------
(***************************************************************************)
(* A model of rlibphonenumber: the possible-length check, the national-    *)
(* prefix stripper, normalisation, the pattern cache, the parser and the   *)
(* formatter, each translated from the Rust source.                        *)
(*                                                                         *)
(* Strings are sequences of one-character strings.  Every entry point is   *)
(* an action that draws its arguments from bounded sets, records them in   *)
(* `call' and records what the function returned in `ret'.                 *)
(***************************************************************************)
EXTENDS Integers, Sequences, FiniteSets, TLC

VARIABLES
    call,      \* the entry point invoked, with its arguments
    ret,       \* what that invocation has returned
    threads,   \* RegexCache clients: each thread's position in get_regex
    cache,     \* RegexCache.cache: the entries of the map
    locks,     \* the read-write lock of every shard of the map
    returned,  \* every value a get_regex call has returned
    store      \* the maps of the PhoneNumberUtil instance

vars == <<call, ret, threads, cache, locks, returned, store>>

cache_vars == <<threads, cache, locks, returned>>

\* The pattern cache is not in use: no client thread exists.
CacheUnused ==
    /\ threads = <<>>
    /\ cache = <<>>
    /\ locks = <<>>
    /\ returned = {}

\* The function called is not a lookup in the maps of an instance.
NoStore == [maps |-> "none"]

StoreUnused == store = NoStore

NoCall == [op |-> "none"]

\* A call that has not returned yet.
Pending == [pending |-> TRUE]

(***************************************************************************)
(* Sequence helpers                                                        *)
(***************************************************************************)
Range(s) == {s[i] : i \in DOMAIN s}

\* Body applied to value: a LET whose definition is written in one place
\* however often the body names it.
Let(value, Body(_)) == Body(value)

\* Vec::contains
Contains(s, x) == \E i \in DOMAIN s : s[i] = x

\* Vec::sort on a list of integers
SortInts(s) == SortSeq(s, LAMBDA a, b : a < b)

\* All strictly ascending lists over a set of integers (how the metadata
\* build writes possible_length and possible_length_local_only).
RECURSIVE AscendingLists(_)
AscendingLists(S) ==
    IF S = {} THEN {<<>>}
    ELSE LET m == CHOOSE x \in S : \A y \in S : y <= x
             rest == AscendingLists(S \ {m})
         IN  rest \cup {Append(l, m) : l \in rest}

(***************************************************************************)
(* PhoneNumberType and the outcomes of the possible-length check           *)
(***************************************************************************)
PhoneNumberType ==
    {"FixedLine", "Mobile", "FixedLineOrMobile", "TollFree", "PremiumRate",
     "SharedCost", "VoIP", "PersonalNumber", "Pager", "UAN", "VoiceMail",
     "Unknown"}

\* Ok(NumberLengthType) and Err(ValidationError) of test_number_length
LengthOutcomes ==
    {"IsPossible", "IsPossibleLocalOnly", "TooShort", "TooLong", "InvalidLength"}

\* A Rust panic (index out of range, slice out of range) ends the call.
Panic == "panic"

(***************************************************************************)
(* helper_functions.rs                                                     *)
(***************************************************************************)
get_number_desc_by_type(metadata, phone_number_type) ==
    CASE phone_number_type = "PremiumRate"       -> metadata.premium_rate
      [] phone_number_type = "TollFree"          -> metadata.toll_free
      [] phone_number_type = "Mobile"            -> metadata.mobile
      [] phone_number_type = "FixedLine"         -> metadata.fixed_line
      [] phone_number_type = "FixedLineOrMobile" -> metadata.fixed_line
      [] phone_number_type = "SharedCost"        -> metadata.shared_cost
      [] phone_number_type = "VoIP"              -> metadata.voip
      [] phone_number_type = "PersonalNumber"    -> metadata.personal_number
      [] phone_number_type = "Pager"             -> metadata.pager
      [] phone_number_type = "UAN"               -> metadata.uan
      [] phone_number_type = "VoiceMail"         -> metadata.voicemail
      [] phone_number_type = "Unknown"           -> metadata.general_desc

desc_has_possible_number_data(desc) ==
    Len(desc.possible_length) # 1 \/ desc.possible_length[1] # -1

\* possible_lengths.first().unwrap_or(&-1)
FirstOrSentinel(possible_lengths) ==
    IF possible_lengths = <<>> THEN -1 ELSE possible_lengths[1]

\* possible_lengths.first().unwrap_or(&0): the guard of line 387 with the
\* wrong default, which lets an empty list through to possible_lengths[0].
FirstOrZero(possible_lengths) ==
    IF possible_lengths = <<>> THEN 0 ELSE possible_lengths[1]

FirstOrDefault(possible_lengths) == FirstOrSentinel(possible_lengths)

\* local_lengths of test_number_length after the FIXED_LINE_OR_MOBILE merge
MergeLocalLengths(local_lengths, mobile_local) ==
    IF Len(local_lengths) = 0 THEN mobile_local
    ELSE SortInts(local_lengths \o mobile_local)

\* The classification proper (lines 385-413), on the lists as merged.
ClassifyLength(actual_length, possible_lengths, local_lengths) ==
    IF FirstOrDefault(possible_lengths) = -1 THEN "InvalidLength"
    ELSE IF Contains(local_lengths, actual_length) THEN "IsPossibleLocalOnly"
    ELSE IF possible_lengths = <<>> THEN Panic     \* possible_lengths[0]
    ELSE LET minimum_length == possible_lengths[1] IN
         IF minimum_length = actual_length THEN "IsPossible"
         ELSE IF minimum_length > actual_length THEN "TooShort"
         ELSE IF possible_lengths[Len(possible_lengths)] < actual_length
              THEN "TooLong"
         ELSE IF Contains(Tail(possible_lengths), actual_length)
              THEN "IsPossible"
         ELSE "InvalidLength"

\* The descriptor's own list with no fall-back to the general descriptor.
LengthsNoFallback(desc, metadata) == desc.possible_length

\* The possible-length list of a descriptor, with the fall-back to the
\* general descriptor's list when it is empty.
LengthsOrGeneral(desc, metadata) ==
    IF Len(desc.possible_length) = 0
    THEN metadata.general_desc.possible_length
    ELSE desc.possible_length

\* The merge that drops the mobile local-only lengths: a plausible slip in
\* lines 375-380.
LengthListsFixedOnlyLocal(metadata) ==
    LET fixed_line_desc == metadata.fixed_line
        mobile_desc     == metadata.mobile
    IN  [possible |-> SortInts(LengthsOrGeneral(fixed_line_desc, metadata)
                               \o LengthsOrGeneral(mobile_desc, metadata)),
         local    |-> fixed_line_desc.possible_length_local_only]

\* possible_lengths and local_lengths for FIXED_LINE_OR_MOBILE when both
\* descriptors carry data (lines 359-381).
MergedLengthLists(metadata) ==
    LET fixed_line_desc == metadata.fixed_line
        mobile_desc     == metadata.mobile
    IN  [possible |-> SortInts(LengthsOrGeneral(fixed_line_desc, metadata)
                               \o LengthsOrGeneral(mobile_desc, metadata)),
         local    |-> MergeLocalLengths(
                          fixed_line_desc.possible_length_local_only,
                          mobile_desc.possible_length_local_only)]

RECURSIVE test_number_length(_, _, _)
test_number_length(phone_number, phone_metadata, phone_number_type) ==
    LET desc_for_type == get_number_desc_by_type(phone_metadata, phone_number_type)
        actual_length == Len(phone_number)
    IN  IF phone_number_type = "FixedLineOrMobile"
        THEN IF ~desc_has_possible_number_data(phone_metadata.fixed_line)
             THEN test_number_length(phone_number, phone_metadata, "Mobile")
             ELSE IF desc_has_possible_number_data(phone_metadata.mobile)
                  THEN LET m == MergedLengthLists(phone_metadata)
                       IN  ClassifyLength(actual_length, m.possible, m.local)
                  ELSE ClassifyLength(actual_length,
                           LengthsOrGeneral(desc_for_type, phone_metadata),
                           desc_for_type.possible_length_local_only)
        ELSE ClassifyLength(actual_length,
                 LengthsOrGeneral(desc_for_type, phone_metadata),
                 desc_for_type.possible_length_local_only)

test_number_length_with_unknown_type(phone_number, phone_metadata) ==
    test_number_length(phone_number, phone_metadata, "Unknown")

(***************************************************************************)
(* The metadata records the possible-length check is exercised on.         *)
(* Lengths range over 1..MaxPossibleLength.  A descriptor's list is empty  *)
(* (inherit from the general descriptor), the sentinel <<-1>> (no numbers  *)
(* of this type) or an ascending list; its local-only list holds at most   *)
(* one length, disjoint from the lengths the descriptor is possible for    *)
(* (checked at build time, helper_functions.rs line 392).  The general     *)
(* descriptor never carries the sentinel (helper_functions.rs lines        *)
(* 338-344), but it may be left empty, as in hand-built test metadata.     *)
(***************************************************************************)
MaxPossibleLength == 3

LengthValues == 1..MaxPossibleLength

\* The lengths a local-only list is drawn from.
LocalOnlyValues == {1}

RealLengthLists == AscendingLists(LengthValues) \ {<<>>}

\* The lists a descriptor is drawn from: one or two lengths (a minimum and
\* a maximum, with or without a gap between them).
SubLengthLists == {l \in RealLengthLists : Len(l) <= 2}

LocalOnlyListsFor(effective) ==
    {<<>>} \cup {<<l>> : l \in LocalOnlyValues \ Range(effective)}

GeneralLengthDescs ==
    {[possible_length |-> p, possible_length_local_only |-> lo] :
        p \in SubLengthLists \cup {<<>>}, lo \in {<<>>, <<1>>}}
    \ {d \in [possible_length : RealLengthLists, possible_length_local_only : {<<1>>}] :
        Contains(d.possible_length, 1)}

UnsupportedDesc == [possible_length |-> <<-1>>, possible_length_local_only |-> <<>>]
InheritingDesc  == [possible_length |-> <<>>, possible_length_local_only |-> <<>>]

SubLengthDescs(general) ==
    {UnsupportedDesc}
    \cup UNION {{[possible_length |-> p, possible_length_local_only |-> lo] :
                    lo \in LocalOnlyListsFor(p)} : p \in SubLengthLists}
    \cup {[possible_length |-> <<>>, possible_length_local_only |-> lo] :
             lo \in LocalOnlyListsFor(general.possible_length)}

LengthMetadataFor(g) ==
    {[general_desc |-> g, fixed_line |-> f, mobile |-> m,
      toll_free |-> InheritingDesc, premium_rate |-> UnsupportedDesc,
      shared_cost |-> UnsupportedDesc, voip |-> UnsupportedDesc,
      personal_number |-> UnsupportedDesc, pager |-> UnsupportedDesc,
      uan |-> UnsupportedDesc, voicemail |-> UnsupportedDesc] :
        f \in SubLengthDescs(g), m \in SubLengthDescs(g)}

LengthMetadata == UNION {LengthMetadataFor(g) : g \in GeneralLengthDescs}

\* The number types the length check is asked about.
LengthTypes ==
    {"FixedLine", "Mobile", "FixedLineOrMobile", "Unknown"}

\* A digit string of a given length (only its length is read).
DigitsOfLength(n) == [i \in 1..n |-> "5"]

LengthCalls ==
    {[op |-> "test_number_length", metadata |-> md, type |-> t,
      number |-> DigitsOfLength(n)] :
        md \in LengthMetadata, t \in LengthTypes, n \in 0..(MaxPossibleLength + 1)}

InitLength ==
    /\ call \in LengthCalls
    /\ ret = "pending"
    /\ CacheUnused
    /\ StoreUnused

TestNumberLength ==
    /\ call.op = "test_number_length"
    /\ ret = "pending"
    /\ ret' = test_number_length(call.number, call.metadata, call.type)
    /\ UNCHANGED <<call, cache_vars, store>>

NextLength == TestNumberLength

SpecLength == InitLength /\ [][NextLength]_vars

(***************************************************************************)
(* Claims about the possible-length check                                  *)
(***************************************************************************)
LengthReturned == call.op = "test_number_length" /\ ret # "pending"

\* C2: the possible-length check always yields exactly one of IsPossible,
\* IsPossibleLocalOnly, TooShort, TooLong, InvalidLength, and never panics,
\* whatever the metadata record, the type and the length.
C2_LengthTotal == LengthReturned => ret \in LengthOutcomes

\* C2 witness: the check has answered for a record whose effective list is
\* empty (the general descriptor lists no lengths).
C2_Witness ==
    /\ LengthReturned
    /\ call.metadata.general_desc.possible_length = <<>>
    /\ call.type = "Unknown"
    /\ ret = "InvalidLength"

SetMin(S) == CHOOSE x \in S : \A y \in S : x <= y
SetMax(S) == CHOOSE x \in S : \A y \in S : y <= x

\* The classification the specification gives for a possible-length set L
\* and a local-only set LO; unsupported is an empty list or the sentinel.
SpecClassify(n, unsupported, L, LO) ==
    IF unsupported THEN "InvalidLength"
    ELSE IF n \in LO THEN "IsPossibleLocalOnly"
    ELSE IF n < SetMin(L) THEN "TooShort"
    ELSE IF n > SetMax(L) THEN "TooLong"
    ELSE IF n \in L THEN "IsPossible"
    ELSE "InvalidLength"

EffectiveList(md, t) ==
    LET d == get_number_desc_by_type(md, t)
    IN  IF d.possible_length = <<>> THEN md.general_desc.possible_length
        ELSE d.possible_length

ListUnsupported(l) == l = <<>> \/ l[1] = -1

\* C3: for every type but FIXED_LINE_OR_MOBILE, with L the type's own list
\* (or the general list when that is empty) and LO its local-only list: an
\* unsupported type (sentinel, or nothing listed at all) is InvalidLength
\* for every length; otherwise a length in LO is IsPossibleLocalOnly, one
\* below min(L) TooShort, one above max(L) TooLong, one in L IsPossible and
\* any other InvalidLength.
C3_LengthClassification ==
    (LengthReturned /\ call.type # "FixedLineOrMobile") =>
        LET L  == EffectiveList(call.metadata, call.type)
            LO == get_number_desc_by_type(call.metadata, call.type)
                      .possible_length_local_only
        IN  ret = SpecClassify(Len(call.number), ListUnsupported(L),
                               Range(L), Range(LO))

\* C3 witness: a length strictly between min(L) and max(L) that L does not
\* list was classified InvalidLength.
C3_Witness ==
    /\ LengthReturned
    /\ call.type = "Mobile"
    /\ call.metadata.mobile.possible_length = <<1, 3>>
    /\ Len(call.number) = 2
    /\ ret = "InvalidLength"

FixedOrMobileCall == LengthReturned /\ call.type = "FixedLineOrMobile"

PossibleFor(t) == test_number_length(call.number, call.metadata, t) = "IsPossible"

FixedOrMobileSets(md) ==
    LET lf == EffectiveList(md, "FixedLine")
        lm == EffectiveList(md, "Mobile")
        f_off == md.fixed_line.possible_length = <<-1>>
        m_off == md.mobile.possible_length = <<-1>>
    IN  IF f_off
        THEN [off |-> ListUnsupported(lm), L |-> Range(lm),
              LO |-> Range(md.mobile.possible_length_local_only)]
        ELSE IF m_off
        THEN [off |-> ListUnsupported(lf), L |-> Range(lf),
              LO |-> Range(md.fixed_line.possible_length_local_only)]
        ELSE [off |-> ListUnsupported(lf) /\ ListUnsupported(lm),
              L   |-> Range(lf) \cup Range(lm),
              LO  |-> Range(md.fixed_line.possible_length_local_only)
                      \cup Range(md.mobile.possible_length_local_only)]

AsciiDigits == {"0", "1", "2", "3", "4", "5", "6", "7", "8", "9"}

AsciiUpper ==
    <<"A", "B", "C", "D", "E", "F", "G", "H", "I", "J", "K", "L", "M",
      "N", "O", "P", "Q", "R", "S", "T", "U", "V", "W", "X", "Y", "Z">>

AsciiLower ==
    <<"a", "b", "c", "d", "e", "f", "g", "h", "i", "j", "k", "l", "m",
      "n", "o", "p", "q", "r", "s", "t", "u", "v", "w", "x", "y", "z">>

AsciiLetters == Range(AsciiUpper) \cup Range(AsciiLower)

to_ascii_uppercase(c) ==
    IF c \in Range(AsciiLower)
    THEN AsciiUpper[CHOOSE i \in DOMAIN AsciiLower : AsciiLower[i] = c]
    ELSE c

\* Decimal digits outside ASCII: full-width 2, Arabic-Indic 5,
\* Eastern-Arabic 0.
WideDigits == [c \in {"U+FF12", "U+0665", "U+06F0"} |->
                 CASE c = "U+FF12" -> "2"
                   [] c = "U+0665" -> "5"
                   [] c = "U+06F0" -> "0"]

\* The E.161 keypad, keyed by upper-case letters only.
alpha_mappings ==
    [c \in Range(AsciiUpper) |->
        CASE c \in {"A", "B", "C"} -> "2"
          [] c \in {"D", "E", "F"} -> "3"
          [] c \in {"G", "H", "I"} -> "4"
          [] c \in {"J", "K", "L"} -> "5"
          [] c \in {"M", "N", "O"} -> "6"
          [] c \in {"P", "Q", "R", "S"} -> "7"
          [] c \in {"T", "U", "V"} -> "8"
          [] c \in {"W", "X", "Y", "Z"} -> "9"]

ascii_digit_mappings == [d \in AsciiDigits |-> d]

alpha_phone_mappings ==
    [c \in DOMAIN alpha_mappings \cup AsciiDigits |->
        IF c \in AsciiDigits THEN ascii_digit_mappings[c] ELSE alpha_mappings[c]]

\* The n-th element of a sequence.
Nth(seq, n) == Head(SubSeq(seq, n, n))

DecimalDigits == AsciiDigits \cup DOMAIN WideDigits

\* The replacement of a character, or the character when it has none.
Replaced(normalization_replacements, phone_char) ==
    IF to_ascii_uppercase(phone_char) \in DOMAIN normalization_replacements
    THEN normalization_replacements[to_ascii_uppercase(phone_char)]
    ELSE phone_char

\* normalize_helper with the remove_non_matches flag ignored: characters
\* without a replacement are always kept.
normalize_helper_keeping(normalization_replacements, remove_non_matches, phone_number) ==
    [k \in 1..Len(phone_number) |->
        Replaced(normalization_replacements, phone_number[k])]

normalize_helper(normalization_replacements, remove_non_matches, phone_number) ==
    LET kept == SelectSeq(phone_number,
                    LAMBDA phone_char :
                        \/ to_ascii_uppercase(phone_char)
                               \in DOMAIN normalization_replacements
                        \/ ~remove_non_matches)
    IN  [k \in 1..Len(kept) |-> Replaced(normalization_replacements, Nth(kept, k))]

\* Every decimal digit becomes its ASCII digit, anything else is dropped.
normalize_digits_only(phone_number) ==
    LET digits == SelectSeq(phone_number, LAMBDA c : c \in DecimalDigits)
    IN  [k \in 1..Len(digits) |->
            IF Nth(digits, k) \in AsciiDigits THEN Nth(digits, k)
            ELSE WideDigits[Nth(digits, k)]]

\* is_match of "(?:.*?[A-Za-z]){3}.*": three ASCII letters with no line
\* break between the first and the third ('.' does not match "\n").
valid_alpha_phone_pattern_is_match(s) ==
    LET letters == {i \in DOMAIN s : s[i] \in AsciiLetters}
        breaks == {i \in DOMAIN s : s[i] = "\n"}
    IN  \E i, k \in letters :
            /\ Cardinality(letters \cap (i..k)) >= 3
            /\ breaks \cap (i..k) = {}

normalize(phone_number) ==
    IF valid_alpha_phone_pattern_is_match(phone_number)
    THEN normalize_helper(alpha_phone_mappings, TRUE, phone_number)
    ELSE normalize_digits_only(phone_number)

(***************************************************************************)
(* normalize applied to a string and then to its own result.               *)
(***************************************************************************)
MaxNormalizeLen == 4

NormalizeChars == {"0", "7", "U+FF12", "a", "H", "-", "\n"}

RECURSIVE StringsUpTo(_, _)
StringsUpTo(chars, n) ==
    IF n = 0 THEN {<<>>}
    ELSE LET shorter == StringsUpTo(chars, n - 1)
         IN  shorter \cup {Append(s, c) : s \in {t \in shorter : Len(t) = n - 1}, c \in chars}

InitNormalize ==
    /\ call \in {[op |-> "normalize", input |-> s] :
                    s \in StringsUpTo(NormalizeChars, MaxNormalizeLen)}
    /\ ret = <<>>
    /\ CacheUnused
    /\ StoreUnused

Normalize ==
    /\ call.op = "normalize"
    /\ ret = <<>>
    /\ ret' = <<normalize(call.input)>>
    /\ UNCHANGED <<call, cache_vars, store>>

NormalizeAgain ==
    /\ call.op = "normalize"
    /\ Len(ret) = 1
    /\ ret' = Append(ret, normalize(ret[1]))
    /\ UNCHANGED <<call, cache_vars, store>>

NextNormalize == Normalize \/ NormalizeAgain

SpecNormalize == InitNormalize /\ [][NextNormalize]_vars

\* C7: normalize is idempotent: normalizing the result of normalize gives
\* the same string, on the vanity branch and on the digits-only branch.
C7_NormalizeIdempotent ==
    (call.op = "normalize" /\ Len(ret) = 2) => ret[2] = ret[1]

\* C7 witness: a vanity input (three letters, keypad mapping, punctuation
\* and a wide digit dropped) has been normalized twice.
C7_Witness ==
    /\ call.op = "normalize"
    /\ Len(ret) = 2
    /\ valid_alpha_phone_pattern_is_match(call.input)
    /\ \E i \in DOMAIN call.input : call.input[i] \in {"-", "U+FF12"}
    /\ ret[1] # <<>>

(***************************************************************************)
(* RegexCache::get_regex                                                   *)
(*                                                                         *)
(* cache is a DashMap: its keys are spread over shards, each behind a      *)
(* read-write lock.  DashMap::get takes the shard's read lock and returns  *)
(* a guard (kept while the value is cloned) or, on a miss, nothing (the    *)
(* lock is released).  DashMap::entry takes the shard's write lock and     *)
(* keeps it through or_try_insert_with, where the closure compiles the     *)
(* pattern, until the returned reference is dropped.                       *)
(***************************************************************************)
Threads == {"t1", "t2", "t3"}

\* The patterns asked for; "0(" does not compile.
Patterns == {"\\d{4,8}", "0(81)?", "0("}

\* DashMap::determine_map: a fixed function of the key's hash.
ShardOf(pattern) == IF pattern = "0(81)?" THEN 2 ELSE 1

Shards == {ShardOf(p) : p \in Patterns}

NoThread == "none"

\* regex::Regex::new: a fresh compiled object carrying its source, or an
\* error.
RegexNew(pattern, id) ==
    IF pattern = "0(" THEN [ok |-> FALSE, error |-> "ErrorInvalidRegex"]
    ELSE [ok |-> TRUE, value |-> [arc |-> id, source |-> pattern]]

\* The entries stored under a key.
Lookup(entries, key) == {e \in entries : e.key = key}

\* An entry lookup that never finds the key.
EntryBlind(entries, key) == {}

\* Entry::Occupied or Entry::Vacant, decided under the shard's write lock.
Entry(entries, key) == Lookup(entries, key)

\* A lock whose read guard is never given back.
KeepRead(lock, t) == lock

\* Dropping a read guard.
ReleaseRead(lock, t) == [lock EXCEPT !.readers = @ \ {t}]

ReleaseWrite(lock, t) == [lock EXCEPT !.writer = NoThread]

CanRead(lock) == lock.writer = NoThread

CanWrite(lock) == lock.writer = NoThread /\ lock.readers = {}

\* The number of get_regex calls a behaviour starts.
MaxCalls == 3

IdleThread == [pc |-> "idle", pattern |-> "", started |-> 0]

InitCache ==
    /\ call = NoCall
    /\ ret = "pending"
    /\ threads = [t \in Threads |-> IdleThread]
    /\ cache = [entries |-> {}, compiled |-> 0, calls |-> 0]
    /\ locks = [s \in Shards |-> [readers |-> {}, writer |-> NoThread]]
    /\ returned = {}
    /\ StoreUnused

MyShard(t) == ShardOf(threads[t].pattern)

Return(t, result) ==
    /\ returned' = returned \cup
          {[thread |-> t, call |-> threads[t].started,
            pattern |-> threads[t].pattern, result |-> result]}
    /\ threads' = [threads EXCEPT ![t].pc = "idle"]

\* A thread calls get_regex(pattern).
CallGetRegex(t, pattern) ==
    /\ threads[t].pc = "idle"
    /\ cache.calls < MaxCalls
    /\ threads' = [threads EXCEPT ![t] =
          [pc |-> "get", pattern |-> pattern, started |-> cache.calls + 1]]
    /\ cache' = [cache EXCEPT !.calls = @ + 1]
    /\ UNCHANGED <<store, call, ret, locks, returned>>

\* self.cache.get(pattern): the shard's read lock is taken.
GetLock(t) ==
    /\ threads[t].pc = "get"
    /\ CanRead(locks[MyShard(t)])
    /\ locks' = [locks EXCEPT ![MyShard(t)].readers = @ \cup {t}]
    /\ threads' = [threads EXCEPT ![t].pc = "get_locked"]
    /\ UNCHANGED <<store, call, ret, cache, returned>>

\* Some(regex): the value is cloned and the guard dropped.
GetHit(t) ==
    /\ threads[t].pc = "get_locked"
    /\ Lookup(cache.entries, threads[t].pattern) # {}
    /\ \E e \in Lookup(cache.entries, threads[t].pattern) :
          Return(t, [ok |-> TRUE, value |-> e.value])
    /\ locks' = [locks EXCEPT ![MyShard(t)] = ReleaseRead(@, t)]
    /\ UNCHANGED <<store, call, ret, cache>>

\* None: get gives the lock back and the else branch is entered.
GetMiss(t) ==
    /\ threads[t].pc = "get_locked"
    /\ Lookup(cache.entries, threads[t].pattern) = {}
    /\ locks' = [locks EXCEPT ![MyShard(t)] = ReleaseRead(@, t)]
    /\ threads' = [threads EXCEPT ![t].pc = "entry"]
    /\ UNCHANGED <<store, call, ret, cache, returned>>

\* self.cache.entry(pattern.to_string()): the shard's write lock is taken.
EntryLock(t) ==
    /\ threads[t].pc = "entry"
    /\ CanWrite(locks[MyShard(t)])
    /\ locks' = [locks EXCEPT ![MyShard(t)].writer = t]
    /\ threads' = [threads EXCEPT ![t].pc = "entry_locked"]
    /\ UNCHANGED <<store, call, ret, cache, returned>>

\* or_try_insert_with on an occupied entry: the closure is not run.
InsertOccupied(t) ==
    /\ threads[t].pc = "entry_locked"
    /\ Entry(cache.entries, threads[t].pattern) # {}
    /\ threads' = [threads EXCEPT ![t].pc = "have_ref"]
    /\ UNCHANGED <<store, call, ret, cache, locks, returned>>

\* or_try_insert_with on a vacant entry: the closure compiles the pattern
\* and the value is inserted.
InsertCompiled(t) ==
    /\ threads[t].pc = "entry_locked"
    /\ Entry(cache.entries, threads[t].pattern) = {}
    /\ LET compiled == RegexNew(threads[t].pattern, cache.compiled + 1)
       IN  /\ compiled.ok
           /\ cache' = [cache EXCEPT
                 !.entries = @ \cup {[key |-> threads[t].pattern,
                                      value |-> compiled.value]},
                 !.compiled = @ + 1]
    /\ threads' = [threads EXCEPT ![t].pc = "have_ref"]
    /\ UNCHANGED <<store, call, ret, locks, returned>>

\* or_try_insert_with on a vacant entry whose pattern does not compile: `?'
\* returns the error, the vacant entry and its lock are dropped.
InsertFailed(t) ==
    /\ threads[t].pc = "entry_locked"
    /\ Entry(cache.entries, threads[t].pattern) = {}
    /\ LET compiled == RegexNew(threads[t].pattern, cache.compiled + 1)
       IN  /\ ~compiled.ok
           /\ Return(t, [ok |-> FALSE, error |-> compiled.error])
    /\ locks' = [locks EXCEPT ![MyShard(t)] = ReleaseWrite(@, t)]
    /\ UNCHANGED <<store, call, ret, cache>>

\* Ok(entry.value().clone()), then the reference and its lock are dropped.
ReturnEntry(t) ==
    /\ threads[t].pc = "have_ref"
    /\ \E e \in Lookup(cache.entries, threads[t].pattern) :
          Return(t, [ok |-> TRUE, value |-> e.value])
    /\ locks' = [locks EXCEPT ![MyShard(t)] = ReleaseWrite(@, t)]
    /\ UNCHANGED <<store, call, ret, cache>>

NextCache ==
    \/ \E t \in Threads, pattern \in Patterns : CallGetRegex(t, pattern)
    \/ \E t \in Threads : GetLock(t)
    \/ \E t \in Threads : GetHit(t)
    \/ \E t \in Threads : GetMiss(t)
    \/ \E t \in Threads : EntryLock(t)
    \/ \E t \in Threads : InsertOccupied(t)
    \/ \E t \in Threads : InsertCompiled(t)
    \/ \E t \in Threads : InsertFailed(t)
    \/ \E t \in Threads : ReturnEntry(t)

SpecCache == InitCache /\ [][NextCache]_vars

(***************************************************************************)
(* Claims about the pattern cache                                          *)
(***************************************************************************)
Compilable(pattern) == RegexNew(pattern, 0).ok

\* C8: under every interleaving of get_regex calls the cache is an atomic
\* get-or-insert keyed by the source string: a call for a compilable
\* pattern returns a compiled pattern of exactly that source, all callers
\* of one source get the same shared object, the cache holds at most one
\* entry per source, and an entry once inserted stays as it is (every
\* object ever compiled is still the entry of its source, and every object
\* returned is the one stored).
C8_AtomicGetOrInsert ==
    /\ \A r \in returned :
          Compilable(r.pattern) =>
              /\ r.result.ok
              /\ r.result.value.source = r.pattern
              /\ [key |-> r.pattern, value |-> r.result.value] \in cache.entries
    /\ \A r1, r2 \in returned :
          (r1.pattern = r2.pattern /\ r1.result.ok /\ r2.result.ok)
              => r1.result.value = r2.result.value
    /\ \A e1, e2 \in cache.entries : e1.key = e2.key => e1 = e2
    /\ Cardinality(cache.entries) = cache.compiled

\* C8 witness: a thread that missed the pattern holds the write lock and
\* finds the entry another thread inserted in between and has returned.
C8_Witness ==
    \E t \in Threads :
        /\ threads[t].pc = "entry_locked"
        /\ Lookup(cache.entries, threads[t].pattern) # {}
        /\ \E r \in returned :
              /\ r.thread # t
              /\ r.pattern = threads[t].pattern
              /\ r.result.ok

InGetRegex(t) == threads[t].pc # "idle"

\* The thread's next step needs a lock that another thread holds.
Waiting(t) ==
    \/ threads[t].pc = "get" /\ ~CanRead(locks[MyShard(t)])
    \/ threads[t].pc = "entry" /\ ~CanWrite(locks[MyShard(t)])

Holders(shard) ==
    locks[shard].readers \cup (IF locks[shard].writer = NoThread THEN {}
                               ELSE {locks[shard].writer})

\* C9 as claimed: a get_regex call in progress never makes a call on
\* another thread wait.
C9_Original == \A t \in Threads : ~Waiting(t)

\* C9: a get_regex call waits only for the lock of its pattern's shard,
\* held by calls in progress on other threads for patterns of that shard;
\* none of the holders waits in turn, so the lock is given back and no two
\* calls wait for each other.  Calls on patterns of another shard, and
\* calls that find their shard's lock free, do not wait.
C9_WaitsOnlyForShardHolder ==
    \A t \in Threads :
        Waiting(t) =>
            /\ Holders(MyShard(t)) # {}
            /\ \A u \in Holders(MyShard(t)) :
                  /\ u # t
                  /\ InGetRegex(u)
                  /\ MyShard(u) = MyShard(t)
                  /\ ~Waiting(u)

\* C9 witness: a call for one pattern waits for the write lock while a
\* call for another pattern of the same shard is compiling under it.
C9_Witness ==
    \E t, u \in Threads :
        /\ t # u
        /\ Waiting(t)
        /\ threads[u].pc = "entry_locked"
        /\ locks[MyShard(t)].writer = u
        /\ threads[u].pattern # threads[t].pattern

(***************************************************************************)
(* Regular expressions                                                     *)
(*                                                                         *)
(* A compiled pattern is a syntax tree; matching follows the regex crate:  *)
(* the leftmost match, and among the matches at one position the first in  *)
(* the order of preference (greedy repetition prefers more iterations,     *)
(* alternation prefers its earlier branch).  MatchAt returns, in that      *)
(* order, every way the tree can match at an offset, each with the end     *)
(* offset and the spans of the capture groups (offsets count the           *)
(* characters before a position; <<-1, -1>> is a group that did not take   *)
(* part).                                                                  *)
(***************************************************************************)
Lit(c) == [t |-> "class", set |-> {c}]
Class(set) == [t |-> "class", set |-> set]
NotClass(set) == [t |-> "nclass", set |-> set]
Cat(parts) == [t |-> "cat", parts |-> parts]
Alt(parts) == [t |-> "alt", parts |-> parts]
Rep(r, min, max) == [t |-> "rep", r |-> r, min |-> min, max |-> max]
Group(n, r) == [t |-> "group", n |-> n, r |-> r]
Bol == [t |-> "bol"]
Eol == [t |-> "eol"]

\* A repetition with max = -1 has no upper limit.
Opt(r) == Rep(r, 0, 1)
Star(r) == Rep(r, 0, -1)
Plus(r) == Rep(r, 1, -1)
Digit == Class(DecimalDigits)
AnyChar == NotClass({"\n"})

RECURSIVE LitString(_)
LitString(str) ==
    IF str = <<>> THEN <<>> ELSE <<Lit(Head(str))>> \o LitString(Tail(str))

NoSpan == [from |-> -1, to |-> -1]

\* A successful match: where it ends and what its groups captured.
Matched(i, caps) == [found |-> TRUE, end |-> i, caps |-> caps]

NoMatch == [found |-> FALSE]

\* Inside a repetition: the iteration before has consumed something.
Progress(from) == [t |-> "progress", from |-> from]

\* The end of group n, which began at offset from.
Close(n, from) == [t |-> "close", n |-> n, from |-> from]

\* What is left of a repetition after one more iteration.
Iterated(r) ==
    Rep(r.r, IF r.min > 0 THEN r.min - 1 ELSE 0, IF r.max = -1 THEN -1 ELSE r.max - 1)

IsClass(r) == r.t \in {"class", "nclass"}

Accepts(r, c) == IF r.t = "class" THEN c \in r.set ELSE c \notin r.set

\* The parts of a concatenation, or the one part anything else is.
Parts(r) == IF r.t = "cat" THEN r.parts ELSE <<r>>

\* Whether a pattern matches the empty string.
RECURSIVE CanBeEmpty(_)
CanBeEmpty(r) ==
    CASE IsClass(r) -> FALSE
      [] r.t = "cat" -> \A k \in DOMAIN r.parts : CanBeEmpty(r.parts[k])
      [] r.t = "alt" -> \E k \in DOMAIN r.parts : CanBeEmpty(r.parts[k])
      [] r.t = "rep" -> r.min = 0 \/ CanBeEmpty(r.r)
      [] r.t = "group" -> CanBeEmpty(r.r)
      [] OTHER -> TRUE

\* One more iteration of a repetition begun at offset i, and what is left
\* of the repetition after it; an iteration that can consume nothing must
\* have consumed something for the repetition to go on.
Iteration(r, i) ==
    Parts(r.r) \o (IF CanBeEmpty(r.r) THEN <<Progress(i)>> ELSE <<>>) \o <<Iterated(r)>>

\* How many characters from offset i on a class accepts in a row, up to the
\* limit of the repetition.
RunLength(r, s, i, limit) ==
    LET left == Len(s) - i
        cap == IF limit = -1 \/ limit > left THEN left ELSE limit
        stops == {k \in 0..(cap - 1) : ~Accepts(r, Nth(s, i + k + 1))}
    IN  IF stops = {} THEN cap
        ELSE CHOOSE k \in stops : \A other \in stops : k <= other

\* The backtracking search of the regex crate's semantics: todo is what is
\* still to be matched from offset i on, in order; the result is the match
\* the search prefers (an earlier branch of an alternation to a later one,
\* one more iteration of a repetition to stopping).
RECURSIVE MatchAt(_, _, _, _), MatchAlt(_, _, _, _, _), MatchRun(_, _, _, _, _, _)
MatchAt(todo, s, i, caps) ==
    CASE todo = <<>> -> Matched(i, caps)
      [] IsClass(Head(todo)) ->
            IF i < Len(s) /\ Accepts(Head(todo), Nth(s, i + 1))
            THEN MatchAt(Tail(todo), s, i + 1, caps) ELSE NoMatch
      [] Head(todo).t = "cat" -> MatchAt(Head(todo).parts \o Tail(todo), s, i, caps)
      [] Head(todo).t = "alt" -> MatchAlt(Head(todo).parts, Tail(todo), s, i, caps)
      [] Head(todo).t = "rep" /\ IsClass(Head(todo).r) ->
            MatchRun(Head(todo), Tail(todo), s, i, caps,
                     RunLength(Head(todo).r, s, i, Head(todo).max))
      [] Head(todo).t = "rep" /\ Head(todo).max = 0 -> MatchAt(Tail(todo), s, i, caps)
      [] Head(todo).t = "rep" /\ Head(todo).min > 0 ->
            MatchAt(Iteration(Head(todo), i) \o Tail(todo), s, i, caps)
      [] Head(todo).t = "rep" ->
            MatchAlt(<<Cat(Iteration(Head(todo), i)), Cat(<<>>)>>,
                     Tail(todo), s, i, caps)
      [] Head(todo).t = "progress" ->
            IF i > Head(todo).from THEN MatchAt(Tail(todo), s, i, caps) ELSE NoMatch
      [] Head(todo).t = "group" ->
            MatchAt(Parts(Head(todo).r) \o <<Close(Head(todo).n, i)>> \o Tail(todo),
                    s, i, caps)
      [] Head(todo).t = "close" ->
            MatchAt(Tail(todo), s, i,
                    [caps EXCEPT ![Head(todo).n] = [from |-> Head(todo).from, to |-> i]])
      [] Head(todo).t = "bol" ->
            IF i = 0 THEN MatchAt(Tail(todo), s, i, caps) ELSE NoMatch
      [] Head(todo).t = "eol" ->
            IF i = Len(s) THEN MatchAt(Tail(todo), s, i, caps) ELSE NoMatch

\* Alternation: an earlier branch that leads to a match is preferred.
MatchAlt(parts, rest, s, i, caps) ==
    IF parts = <<>> THEN NoMatch
    ELSE LET first == MatchAt(Parts(Head(parts)) \o rest, s, i, caps)
         IN  IF first.found THEN first
             ELSE MatchAlt(Tail(parts), rest, s, i, caps)

\* A repetition of a class: the longest run that leads to a match is
\* preferred, down to the least number of iterations.
MatchRun(r, rest, s, i, caps, k) ==
    IF k < r.min THEN NoMatch
    ELSE LET longest == MatchAt(rest, s, i + k, caps)
         IN  IF longest.found THEN longest
             ELSE MatchRun(r, rest, s, i, caps, k - 1)

\* The preferred match of a compiled pattern at one offset.
MatchFrom(re, s, i) ==
    Let(MatchAt(<<re.ast>>, s, i, [g \in 1..re.groups |-> NoSpan]),
        LAMBDA m :
            IF m.found
            THEN [found |-> TRUE, start |-> i, end |-> m.end, caps |-> m.caps]
            ELSE NoMatch)

\* Regex::find / Regex::captures: the leftmost match.
FindFrom(re, s, i) ==
    Let({j \in i..Len(s) : MatchFrom(re, s, j).found},
        LAMBDA starts :
            IF starts = {} THEN NoMatch
            ELSE MatchFrom(re, s,
                           CHOOSE j \in starts : \A other \in starts : j <= other))

Find(re, s) == FindFrom(re, s, 0)

\* The leftmost match begins the string exactly when there is a match at
\* offset 0, and it is then the preferred match at that offset.
full_match(re, s) ==
    Let(MatchFrom(re, s, 0), LAMBDA found : found.found /\ found.end = Len(s))

\* The leftmost match, if it begins the string.
captures_start(re, s) == MatchFrom(re, s, 0)

matches_start(re, s) == captures_start(re, s).found

Slice(s, from, to) == SubSeq(s, from + 1, to)

\* Captures::get(n): the text of group n, when it took part in the match.
HasGroup(m, n) == m.found /\ n \in DOMAIN m.caps /\ Nth(m.caps, n) # NoSpan
GroupText(m, s, n) == Slice(s, Nth(m.caps, n).from, Nth(m.caps, n).to)

\* The string of a pattern or rule written as a sequence of characters.
Digits(n) ==
    CASE n = 0 -> "0" [] n = 1 -> "1" [] n = 2 -> "2" [] n = 3 -> "3"
      [] n = 4 -> "4" [] n = 5 -> "5" [] n = 6 -> "6" [] n = 7 -> "7"
      [] n = 8 -> "8" [] n = 9 -> "9"

DigitValue(c) == CHOOSE n \in 0..9 : Digits(n) = c

\* Captures::expand for one replacement: "$N" and "${N}" stand for group N
\* (the name after "$" runs over every following letter, digit or "_"),
\* a group that did not take part or does not exist expands to nothing.
NameChars == AsciiDigits \cup AsciiLetters \cup {"_"}

RECURSIVE NameLength(_)
NameLength(rule) ==
    IF rule # <<>> /\ Head(rule) \in NameChars THEN 1 + NameLength(Tail(rule)) ELSE 0

GroupNamed(name, m, s) ==
    IF Len(name) = 1 /\ Head(name) \in AsciiDigits /\ HasGroup(m, DigitValue(Head(name)))
    THEN GroupText(m, s, DigitValue(Head(name)))
    ELSE <<>>

RECURSIVE Expand(_, _, _)
Expand(rule, m, s) ==
    IF rule = <<>> THEN <<>>
    ELSE IF Head(rule) = "$" /\ Len(rule) >= 4 /\ Nth(rule, 2) = "{" /\ Nth(rule, 4) = "}"
    THEN GroupNamed(SubSeq(rule, 3, 3), m, s) \o Expand(SubSeq(rule, 5, Len(rule)), m, s)
    ELSE IF Head(rule) = "$" /\ NameLength(Tail(rule)) > 0
    THEN LET n == NameLength(Tail(rule))
         IN  GroupNamed(SubSeq(rule, 2, n + 1), m, s)
                 \o Expand(SubSeq(rule, n + 2, Len(rule)), m, s)
    ELSE <<Head(rule)>> \o Expand(Tail(rule), m, s)

\* Regex::replace: the leftmost match is replaced by the expanded rule.
Replace(re, s, rule) ==
    Let(Find(re, s),
        LAMBDA m :
            IF ~m.found THEN s
            ELSE Slice(s, 0, m.start) \o Expand(rule, m, s) \o Slice(s, m.end, Len(s)))

(***************************************************************************)
(* The patterns of the metadata records used below, as Regex::new          *)
(* compiles them.                                                          *)
(***************************************************************************)
RegexOf(pattern) ==
    CASE pattern = "\\d{4,8}" ->
            [groups |-> 0, ast |-> Rep(Digit, 4, 8)]
      [] pattern = "[1-5]\\d{3,4}" ->
            [groups |-> 0,
             ast |-> Cat(<<Class({"1", "2", "3", "4", "5"}), Rep(Digit, 3, 4)>>)]
      [] pattern = "34" ->
            [groups |-> 0, ast |-> Cat(LitString(<<"3", "4">>))]
      [] pattern = "3" ->
            [groups |-> 0, ast |-> Lit("3")]
      [] pattern = "0(81)?" ->
            [groups |-> 1,
             ast |-> Cat(<<Lit("0"), Opt(Group(1, Cat(LitString(<<"8", "1">>))))>>)]
      [] pattern = "0(\\d{2})" ->
            [groups |-> 1, ast |-> Cat(<<Lit("0"), Group(1, Rep(Digit, 2, 2))>>)]
      [] pattern = "0(?:(31)(\\d{4}))?" ->
            [groups |-> 2,
             ast |-> Cat(<<Lit("0"),
                           Opt(Cat(<<Group(1, Cat(LitString(<<"3", "1">>))),
                                     Group(2, Rep(Digit, 4, 4))>>))>>)]
      [] pattern = "[2-9]\\d{3}" ->
            [groups |-> 0,
             ast |-> Cat(<<Class({"2", "3", "4", "5", "6", "7", "8", "9"}),
                           Rep(Digit, 3, 3)>>)]
      [] pattern = "24\\d{2}" ->
            [groups |-> 0, ast |-> Cat(<<Lit("2"), Lit("4"), Rep(Digit, 2, 2)>>)]
      [] pattern = "[1-9]\\d{3,4}" ->
            [groups |-> 0, ast |-> Cat(<<Class(AsciiDigits \ {"0"}), Rep(Digit, 3, 4)>>)]
      [] pattern = "[1-6]\\d{3}" ->
            [groups |-> 0,
             ast |-> Cat(<<Class({"1", "2", "3", "4", "5", "6"}), Rep(Digit, 3, 3)>>)]
      [] pattern = "7\\d{4}" ->
            [groups |-> 0, ast |-> Cat(<<Lit("7"), Rep(Digit, 4, 4)>>)]
      [] pattern = "[03]\\d{3}" ->
            [groups |-> 0, ast |-> Cat(<<Class({"0", "3"}), Rep(Digit, 3, 3)>>)]
      [] pattern = "0\\d{3}" ->
            [groups |-> 0, ast |-> Cat(<<Lit("0"), Rep(Digit, 3, 3)>>)]
      [] pattern = "3\\d{3}" ->
            [groups |-> 0, ast |-> Cat(<<Lit("3"), Rep(Digit, 3, 3)>>)]
      [] pattern = "[348]\\d{3,4}" ->
            [groups |-> 0, ast |-> Cat(<<Class({"3", "4", "8"}), Rep(Digit, 3, 4)>>)]
      [] pattern = "\\d{4}" ->
            [groups |-> 0, ast |-> Rep(Digit, 4, 4)]
      [] pattern = "(\\d)(\\d{3})" ->
            [groups |-> 2, ast |-> Cat(<<Group(1, Digit), Group(2, Rep(Digit, 3, 3))>>)]
      [] pattern = "(\\d{2})(\\d{2,3})" ->
            [groups |-> 2,
             ast |-> Cat(<<Group(1, Rep(Digit, 2, 2)), Group(2, Rep(Digit, 2, 3))>>)]
      [] pattern = "(\\d{2})(\\d{2})" ->
            [groups |-> 2,
             ast |-> Cat(<<Group(1, Rep(Digit, 2, 2)), Group(2, Rep(Digit, 2, 2))>>)]
      [] pattern = "011" ->
            [groups |-> 0, ast |-> Cat(LitString(<<"0", "1", "1">>))]
      [] pattern = "00" ->
            [groups |-> 0, ast |-> Cat(LitString(<<"0", "0">>))]
      [] pattern = "810" ->
            [groups |-> 0, ast |-> Cat(LitString(<<"8", "1", "0">>))]
      [] pattern = "NonMatch" ->
            [groups |-> 0,
             ast |-> Cat(LitString(<<"N", "o", "n", "M", "a", "t", "c", "h">>))]
      [] pattern = "1" ->
            [groups |-> 0, ast |-> Lit("1")]
      [] pattern = "0" ->
            [groups |-> 0, ast |-> Lit("0")]
      [] pattern = "8" ->
            [groups |-> 0, ast |-> Lit("8")]

(***************************************************************************)
(* maybe_strip_national_prefix_and_carrier_code                            *)
(***************************************************************************)
None == [some |-> FALSE]
Some(v) == [some |-> TRUE, value |-> v]

match_national_number(number, number_desc, allow_prefix_match) ==
    IF number_desc.national_number_pattern = "" THEN FALSE
    ELSE Let(MatchFrom(RegexOf(number_desc.national_number_pattern), number, 0),
             LAMBDA found :
                 found.found /\ (allow_prefix_match \/ found.end = Len(number)))

is_match(number, number_desc) == match_national_number(number, number_desc, FALSE)

\* The check of the result against the general descriptor left out.
AlwaysMatches(number, number_desc) == TRUE

\* The check that keeps a stripped number only if it is still viable.
StillViable(number, number_desc) == is_match(number, number_desc)

maybe_strip_national_prefix_and_carrier_code(metadata, phone_number) ==
    LET possible_national_prefix == metadata.national_prefix_for_parsing
    IN  IF phone_number = <<>> \/ possible_national_prefix = ""
        THEN [number |-> phone_number, carrier_code |-> None]
        ELSE
    Let(is_match(phone_number, metadata.general_desc), LAMBDA is_viable_original_number :
    Let(RegexOf(possible_national_prefix), LAMBDA possible_national_prefix_pattern :
    Let(captures_start(possible_national_prefix_pattern, phone_number), LAMBDA captures :
    LET general_desc == metadata.general_desc
        transform_rule == metadata.national_prefix_transform_rule
        has_first == HasGroup(captures, 1)
        has_second == HasGroup(captures, 2)
        condition ==
            /\ transform_rule # <<>>
            /\ \/ has_second /\ GroupText(captures, phone_number, 2) # <<>>
               \/ GroupText(captures, phone_number, 1) # <<>> /\ ~has_second
    IN  IF has_first /\ condition
        THEN LET carrier_code_temp ==
                     IF has_second THEN Some(GroupText(captures, phone_number, 1))
                     ELSE None
                 replaced_number ==
                     Replace(possible_national_prefix_pattern, phone_number, transform_rule)
             IN  IF is_viable_original_number /\ ~StillViable(replaced_number, general_desc)
                 THEN [number |-> phone_number, carrier_code |-> None]
                 ELSE [number |-> replaced_number, carrier_code |-> carrier_code_temp]
        ELSE IF captures.found
        THEN LET stripped_number == Slice(phone_number, captures.end, Len(phone_number))
                 carrier_code_temp ==
                     IF has_first THEN Some(GroupText(captures, phone_number, 1))
                     ELSE None
             IN  IF is_viable_original_number /\ ~StillViable(stripped_number, general_desc)
                 THEN [number |-> phone_number, carrier_code |-> None]
                 ELSE [number |-> stripped_number, carrier_code |-> carrier_code_temp]
        ELSE [number |-> phone_number, carrier_code |-> None])))

(***************************************************************************)
(* The prefix stripper applied to hand-built metadata records, as in the   *)
(* unit test: a general pattern, a national prefix for parsing and a       *)
(* transform rule.                                                         *)
(***************************************************************************)
StripGeneralPatterns == {"", "\\d{4,8}", "[1-5]\\d{3,4}"}

StripPrefixPatterns ==
    {"", "34", "3", "0(81)?", "0(\\d{2})", "0(?:(31)(\\d{4}))?"}

StripTransformRules == {<<>>, <<"5", "$", "{", "1", "}", "5">>, <<"$", "2">>}

StripMetadata ==
    {[general_desc |-> [national_number_pattern |-> g],
      national_prefix_for_parsing |-> p,
      national_prefix_transform_rule |-> r] :
        g \in StripGeneralPatterns, p \in StripPrefixPatterns, r \in StripTransformRules}

\* The numbers stripped: a start that may be taken for a prefix, then up to
\* MaxStripTail further digits.
MaxStripTail == 5

StripHeads ==
    {<<>>, <<"0">>, <<"3">>, <<"3", "4">>, <<"0", "8", "1">>, <<"0", "3", "1">>}

StripNumbers ==
    {h \o t : h \in StripHeads, t \in StringsUpTo({"1", "6"}, MaxStripTail)}

InitStrip ==
    /\ call \in {[op |-> "maybe_strip_national_prefix_and_carrier_code",
                  metadata |-> md, phone_number |-> n] :
                    md \in StripMetadata, n \in StripNumbers}
    /\ ret = Pending
    /\ CacheUnused
    /\ StoreUnused

MaybeStripNationalPrefixAndCarrierCode ==
    /\ call.op = "maybe_strip_national_prefix_and_carrier_code"
    /\ ret = Pending
    /\ ret' = maybe_strip_national_prefix_and_carrier_code(call.metadata, call.phone_number)
    /\ UNCHANGED <<call, cache_vars, store>>

NextStrip == MaybeStripNationalPrefixAndCarrierCode

SpecStrip == InitStrip /\ [][NextStrip]_vars

Stripped == call.op = "maybe_strip_national_prefix_and_carrier_code" /\ ret # Pending

\* C5: when the number matches the general descriptor, the stripper returns
\* it unchanged with no carrier code, or a stripped or transformed number
\* that matches the general descriptor too.
C5_StripKeepsGeneralMatch ==
    (Stripped /\ is_match(call.phone_number, call.metadata.general_desc))
        => \/ ret = [number |-> call.phone_number, carrier_code |-> None]
           \/ is_match(ret.number, call.metadata.general_desc)

\* C5 witness: a number matching the general descriptor begins with the
\* national prefix, and without the prefix it would not match any more;
\* the stripper has returned.
C5_Witness ==
    /\ Stripped
    /\ is_match(call.phone_number, call.metadata.general_desc)
    /\ call.metadata.national_prefix_for_parsing = "3"
    /\ Head(call.phone_number) = "3"
    /\ ~is_match(Tail(call.phone_number), call.metadata.general_desc)

(***************************************************************************)
(* Constants and patterns of the parser                                    *)
(* (helper_constants.rs, phone_number_regexps_and_mappings.rs).            *)
(* Character classes list the characters that occur in the strings of      *)
(* this model: ASCII, the wide digits above and the full-width plus.       *)
(***************************************************************************)
RFC3966_PREFIX == <<"t", "e", "l", ":">>
RFC3966_PHONE_CONTEXT == <<";", "p", "h", "o", "n", "e", "-", "c", "o", "n", "t", "e", "x", "t", "=">>
RFC3966_ISDN_SUBADDRESS == <<";", "i", "s", "u", "b", "=">>
RFC3966_EXTN_PREFIX == <<";", "e", "x", "t", "=">>
DEFAULT_EXTN_PREFIX == <<" ", "e", "x", "t", ".", " ">>
PLUS_SIGN == "+"

PLUS_CHARS == {"+", "U+FF0B"}

\* VALID_PUNCTUATION, and the same under (?i).
VALID_PUNCTUATION == {"-", "x", " ", "(", ")", ".", "[", "]", "/", "~"}
ValidPunctuationAnyCase == VALID_PUNCTUATION \cup {"X"}

plus_chars_pattern == [groups |-> 0, ast |-> Plus(Class(PLUS_CHARS))]

valid_start_char_pattern ==
    [groups |-> 0, ast |-> Class(PLUS_CHARS \cup DecimalDigits)]

\* [^\p{N}\p{L}#]
unwanted_end_char_pattern ==
    [groups |-> 0, ast |-> NotClass(DecimalDigits \cup AsciiLetters \cup {"#"})]

\* (.*)[\\/] *x
capture_up_to_second_number_start_pattern ==
    [groups |-> 1,
     ast |-> Cat(<<Group(1, Star(AnyChar)), Class({"\\", "/"}),
                   Star(Lit(" ")), Lit("x")>>)]

\* [+＋]*(?:[punct*]*\d){3,}[punct*\da-z]*|\d{2}, under (?i).  The pattern
\* is only ever matched between ^ and $, where it matters which strings
\* match and not how: an iteration of the group after the third is a run of
\* characters the class that follows accepts as well, so that {3,} and {3}
\* match the same strings.
valid_phone_number ==
    Alt(<<Cat(<<Star(Class(PLUS_CHARS)),
                Rep(Cat(<<Star(Class(ValidPunctuationAnyCase \cup {"*"})), Digit>>), 3, 3),
                Star(Class(ValidPunctuationAnyCase \cup {"*"} \cup DecimalDigits
                           \cup AsciiLetters))>>),
          Rep(Digit, 2, 2)>>)

extn_digits(n, max_length) == Group(n, Rep(Digit, 1, max_length))

AnyCase(str) ==
    Cat([i \in DOMAIN str |-> Class({str[i], to_ascii_uppercase(str[i])})])

\* [  \t,]* and the same without the comma
SeparatorsBeforeExtLabel == Star(Class({" ", "\t", ","}))
SeparatorsNoComma == Star(Class({" ", "\t"}))

\* [:\.．]?[  \t,-]*
POSSIBLE_CHARS_AFTER_EXT_LABEL ==
    Cat(<<Opt(Class({":", "."})), Star(Class({" ", "\t", ",", "-"}))>>)

\* (?:e?xt(?:ensi(?:ó?|ó))?n?|...|anexo), under (?i)
explicit_ext_labels ==
    Alt(<<Cat(<<Opt(AnyCase(<<"e">>)), AnyCase(<<"x", "t">>),
                Opt(Cat(<<AnyCase(<<"e", "n", "s", "i">>), AnyCase(<<"o">>)>>)),
                Opt(AnyCase(<<"n">>))>>),
          AnyCase(<<"a", "n", "e", "x", "o">>)>>)

\* (?:[xｘ#＃~～]|int|...), under (?i)
ambiguous_ext_labels ==
    Alt(<<Class({"x", "X", "#", "~"}), AnyCase(<<"i", "n", "t">>)>>)

\* create_extn_pattern(true): six capturing groups, one per alternative.
extn_patterns_for_parsing ==
    Alt(<<Cat(<<Cat(LitString(RFC3966_EXTN_PREFIX)), extn_digits(1, 20)>>),
          Cat(<<SeparatorsBeforeExtLabel, explicit_ext_labels,
                POSSIBLE_CHARS_AFTER_EXT_LABEL, extn_digits(2, 20), Opt(Lit("#"))>>),
          Cat(<<SeparatorsBeforeExtLabel, ambiguous_ext_labels,
                POSSIBLE_CHARS_AFTER_EXT_LABEL, extn_digits(3, 9), Opt(Lit("#"))>>),
          Cat(<<Plus(Class({"-", " "})), extn_digits(4, 6), Lit("#")>>),
          Cat(<<SeparatorsNoComma, Alt(<<Rep(Lit(","), 2, 2), Lit(";")>>),
                POSSIBLE_CHARS_AFTER_EXT_LABEL, extn_digits(5, 15), Opt(Lit("#"))>>),
          Cat(<<SeparatorsNoComma, Plus(Lit(",")),
                POSSIBLE_CHARS_AFTER_EXT_LABEL, extn_digits(6, 9), Opt(Lit("#"))>>)>>)

\* (?i)(?:extn)$
extn_pattern == [groups |-> 6, ast |-> Cat(<<extn_patterns_for_parsing, Eol>>)]

\* (?i)^(?:valid_phone_number)(?:extn)?$
valid_phone_number_pattern ==
    [groups |-> 6,
     ast |-> Cat(<<Bol, valid_phone_number, Opt(extn_patterns_for_parsing), Eol>>)]

\* (\p{Nd}|[\-\.\(\)]?)
rfc3966_phone_digit == Alt(<<Digit, Opt(Class({"-", ".", "(", ")"}))>>)

alphanum == AsciiLetters \cup DecimalDigits

\* [alphanum]+((\-)*[alphanum])*
rfc3966_domainlabel ==
    Cat(<<Plus(Class(alphanum)), Star(Cat(<<Star(Lit("-")), Class(alphanum)>>))>>)

\* [A-Za-z]+((\-)*[alphanum])*
rfc3966_toplabel ==
    Cat(<<Plus(Class(AsciiLetters)), Star(Cat(<<Star(Lit("-")), Class(alphanum)>>))>>)

\* ^\+(phone_digit)*\p{Nd}(phone_digit)*$
rfc3966_global_number_digits_pattern ==
    [groups |-> 0,
     ast |-> Cat(<<Bol, Lit(PLUS_SIGN), Star(rfc3966_phone_digit), Digit,
                   Star(rfc3966_phone_digit), Eol>>)]

\* ^(domainlabel\.)*toplabel\.?$
rfc3966_domainname_pattern ==
    [groups |-> 0,
     ast |-> Cat(<<Bol, Star(Cat(<<rfc3966_domainlabel, Lit(".")>>)),
                   rfc3966_toplabel, Opt(Lit(".")), Eol>>)]

(***************************************************************************)
(* Results, string search and slicing                                      *)
(***************************************************************************)
Ok(v) == [ok |-> TRUE, value |-> v]
Err(e) == [ok |-> FALSE, error |-> e]

\* The call does not return: the thread panics.
Panicked == Err(Panic)

\* str::len counts bytes.
Utf8Len(c) ==
    IF c \in {"U+FF0B", "U+FF12"} THEN 3 ELSE IF c \in {"U+0665", "U+06F0"} THEN 2 ELSE 1

ByteLen(str) ==
    Len(str) + Len(SelectSeq(str, LAMBDA c : Utf8Len(c) >= 2))
             + Len(SelectSeq(str, LAMBDA c : Utf8Len(c) = 3))

StartsWith(str, prefix) ==
    Len(prefix) <= Len(str) /\ SubSeq(str, 1, Len(prefix)) = prefix

\* str::find: the offset of the first occurrence, or -1.
IndexFrom(str, sub, i) ==
    LET found == {j \in i..(Len(str) - Len(sub)) : Slice(str, j, j + Len(sub)) = sub}
    IN  IF found = {} THEN -1
        ELSE CHOOSE j \in found : \A other \in found : j <= other

IndexOf(str, sub) == IndexFrom(str, sub, 0)

\* &s[from..to] is defined when from <= to <= len and panics otherwise.
SliceInBounds(str, from, to) == from <= to /\ to <= Len(str)

(***************************************************************************)
(* build_national_number_for_parsing and what it calls                     *)
(***************************************************************************)
extract_phone_context(number_to_extract_from, index_of_phone_context) ==
    LET phone_context_start == index_of_phone_context + Len(RFC3966_PHONE_CONTEXT)
        rest == Slice(number_to_extract_from, phone_context_start,
                      Len(number_to_extract_from))
        phone_context_end == IndexOf(rest, <<";">>)
    IN  IF phone_context_start >= Len(number_to_extract_from) THEN <<>>
        ELSE IF phone_context_end # -1 THEN Slice(rest, 0, phone_context_end)
        ELSE rest

is_phone_context_valid(phone_context) ==
    IF phone_context = <<>> THEN FALSE
    ELSE \/ full_match(rfc3966_global_number_digits_pattern, phone_context)
         \/ full_match(rfc3966_domainname_pattern, phone_context)

\* Everything after the last character that is not an unwanted end
\* character is dropped.
trim_unwanted_end_chars(phone_number) ==
    LET wanted == {k \in 1..Len(phone_number) :
                      ~full_match(unwanted_end_char_pattern,
                                  SubSeq(phone_number, k, k))}
    IN  IF wanted = {} THEN <<>>
        ELSE SubSeq(phone_number, 1,
                    CHOOSE k \in wanted : \A other \in wanted : other <= k)

\* The characters skipped before the first valid start character.
SkipToStartChar(phone_number) ==
    LET starts == {k \in 1..Len(phone_number) :
                      full_match(valid_start_char_pattern, SubSeq(phone_number, k, k))}
    IN  IF starts = {} THEN Len(phone_number)
        ELSE (CHOOSE k \in starts : \A other \in starts : k <= other) - 1

extract_possible_number(phone_number) ==
    Let(SkipToStartChar(phone_number), LAMBDA i :
    Let(trim_unwanted_end_chars(Slice(phone_number, i, Len(phone_number))),
        LAMBDA extracted_number :
    Let(Find(capture_up_to_second_number_start_pattern, extracted_number),
        LAMBDA captures :
        IF i = Len(phone_number)
        THEN Err("NotANumber(FailedToExtractNumber(NoValidStartCharacter))")
        ELSE IF extracted_number = <<>>
        THEN Err("NotANumber(FailedToExtractNumber(NotANumber))")
        ELSE IF HasGroup(captures, 1)
        THEN Ok(GroupText(captures, extracted_number, 1))
        ELSE Ok(extracted_number))))

\* Everything from the isdn-subaddress on is dropped.
TruncateAtIsdn(national_number) ==
    LET index_of_isdn == IndexOf(national_number, RFC3966_ISDN_SUBADDRESS)
    IN  IF index_of_isdn # -1 THEN Slice(national_number, 0, index_of_isdn)
        ELSE national_number

\* The start of the national number: 0, or just after the first "tel:".
IndexOfNationalNumber(number_to_parse, index_of_phone_context) ==
    LET index_of_rfc_prefix == IndexOf(number_to_parse, RFC3966_PREFIX)
    IN  IF index_of_rfc_prefix = -1 THEN 0
        ELSE index_of_rfc_prefix + Len(RFC3966_PREFIX)

build_national_number_for_parsing(number_to_parse) ==
    LET index_of_phone_context == IndexOf(number_to_parse, RFC3966_PHONE_CONTEXT)
    IN  IF index_of_phone_context # -1
        THEN Let(extract_phone_context(number_to_parse, index_of_phone_context),
                 LAMBDA phone_context :
             Let(IndexOfNationalNumber(number_to_parse, index_of_phone_context),
                 LAMBDA index_of_national_number :
             LET context_number ==
                     IF StartsWith(phone_context, <<PLUS_SIGN>>) THEN phone_context
                     ELSE <<>>
             IN  IF ~is_phone_context_valid(phone_context)
                 THEN Err("NotANumber(InvalidPhoneContext)")
                 ELSE IF ~SliceInBounds(number_to_parse, index_of_national_number,
                                        index_of_phone_context)
                 THEN Panicked
                 ELSE Ok(TruncateAtIsdn(
                         context_number \o Slice(number_to_parse,
                                                 index_of_national_number,
                                                 index_of_phone_context)))))
        ELSE Let(extract_possible_number(number_to_parse),
                 LAMBDA extracted :
                 IF ~extracted.ok THEN extracted
                 ELSE Ok(TruncateAtIsdn(extracted.value)))

MIN_LENGTH_FOR_NSN == 2
MAX_LENGTH_FOR_NSN == 17
MAX_LENGTH_COUNTRY_CODE == 3

is_viable_phone_number(phone_number) ==
    IF ByteLen(phone_number) < MIN_LENGTH_FOR_NSN THEN FALSE
    ELSE full_match(valid_phone_number_pattern, phone_number)

\* The first capture group that took part in the match and is not empty.
FirstNonEmptyGroup(m, str) ==
    LET filled == {n \in DOMAIN m.caps : HasGroup(m, n) /\ GroupText(m, str, n) # <<>>}
    IN  IF filled = {} THEN 0 ELSE SetMin(filled)

maybe_strip_extension(phone_number) ==
    Let(Find(extn_pattern, phone_number), LAMBDA captures :
        IF ~captures.found THEN [number |-> phone_number, extension |-> None]
        ELSE
    LET phone_number_no_extn == Slice(phone_number, 0, captures.start)
        ext == FirstNonEmptyGroup(captures, phone_number)
    IN  IF ~is_viable_phone_number(phone_number_no_extn)
        THEN [number |-> phone_number, extension |-> None]
        ELSE IF ext # 0
        THEN [number |-> phone_number_no_extn,
              extension |-> Some(GroupText(captures, phone_number, ext))]
        ELSE [number |-> phone_number, extension |-> None])

(***************************************************************************)
(* PhoneNumber.  A field that has not been set is None; the getters give   *)
(* the default of the field.  national_number is a u64: it is written as   *)
(* its decimal numeral, the string itoa gives for it, so that numbers of   *)
(* up to MAX_LENGTH_FOR_NSN digits have a value.                           *)
(***************************************************************************)
PhoneNumber_new ==
    [country_code |-> None, national_number |-> None, extension |-> None,
     italian_leading_zero |-> None, number_of_leading_zeros |-> None,
     raw_input |-> None, country_code_source |-> None,
     preferred_domestic_carrier_code |-> None]

GetOr(field, default) == IF field.some THEN field.value ELSE default

country_code(phone_number) == GetOr(phone_number.country_code, 0)
national_number(phone_number) == GetOr(phone_number.national_number, <<"0">>)
extension(phone_number) == GetOr(phone_number.extension, <<>>)
italian_leading_zero(phone_number) == GetOr(phone_number.italian_leading_zero, FALSE)
number_of_leading_zeros(phone_number) == GetOr(phone_number.number_of_leading_zeros, 1)
raw_input(phone_number) == GetOr(phone_number.raw_input, <<>>)

\* The digits taken as they are written, leading zeros included.
U64Verbatim(digits) == digits

\* u64::from_str_radix(digits, 10) as a numeral: the leading zeros go.
RECURSIVE U64FromStr(_)
U64FromStr(digits) ==
    IF Len(digits) > 1 /\ Head(digits) = "0" THEN U64FromStr(Tail(digits))
    ELSE digits

\* i32::from_str_radix(str, 10) of a string of at most three characters.
RECURSIVE DecimalValue(_, _)
DecimalValue(str, acc) ==
    IF str = <<>> THEN acc
    ELSE DecimalValue(Tail(str), 10 * acc + DigitValue(Head(str)))

I32FromStr(str) ==
    IF str = <<>> \/ \E c \in Range(str) : c \notin AsciiDigits
    THEN Err("ParseIntError")
    ELSE Ok(DecimalValue(str, 0))

\* itoa::Buffer::format of an i32.
RECURSIVE Itoa(_)
Itoa(n) ==
    IF n < 0 THEN <<"-">> \o Itoa(0 - n)
    ELSE IF n < 10 THEN <<Digits(n)>>
    ELSE Itoa(n \div 10) \o <<Digits(n % 10)>>

(***************************************************************************)
(* PhoneMetadata records and the maps new_for_metadata builds from a       *)
(* collection of them.                                                     *)
(***************************************************************************)
REGION_CODE_FOR_NON_GEO_ENTITY == "001"
UnknownRegion == "ZZ"
NANPA_COUNTRY_CODE == 1

\* A descriptor of a type the region has no numbers of.
NoDesc ==
    [national_number_pattern |-> "", possible_length |-> <<-1>>,
     possible_length_local_only |-> <<>>]

Desc(pattern, possible_length, local_only) ==
    [national_number_pattern |-> pattern, possible_length |-> possible_length,
     possible_length_local_only |-> local_only]

NumberFormat(pattern, format, national_prefix_formatting_rule) ==
    [pattern |-> pattern, format |-> format, leading_digits_pattern |-> <<>>,
     national_prefix_formatting_rule |-> national_prefix_formatting_rule,
     domestic_carrier_code_formatting_rule |-> <<>>]

\* PhoneMetadata::new(): every field at its default.
PhoneMetadata_new ==
    [id |-> "", country_code |-> 0, international_prefix |-> "",
     national_prefix |-> <<>>, national_prefix_for_parsing |-> "",
     national_prefix_transform_rule |-> <<>>, preferred_extn_prefix |-> None,
     preferred_international_prefix |-> None,
     main_country_for_code |-> FALSE, leading_digits |-> None,
     same_mobile_and_fixed_line_pattern |-> FALSE,
     general_desc |-> NoDesc, fixed_line |-> NoDesc, mobile |-> NoDesc,
     toll_free |-> NoDesc, premium_rate |-> NoDesc, shared_cost |-> NoDesc,
     personal_number |-> NoDesc, voip |-> NoDesc, pager |-> NoDesc,
     uan |-> NoDesc, voicemail |-> NoDesc,
     number_format |-> <<>>, intl_number_format |-> <<>>]

\* A put into a HashMap: the value of an existing key is replaced.
MapInsert(map, key, value) ==
    [k \in DOMAIN map \cup {key} |-> IF k = key THEN value ELSE map[k]]

\* HashMap::get
MapGet(map, key) == IF key \in DOMAIN map THEN Some(map[key]) ELSE None

EmptyMap == [k \in {} |-> k]

\* The region lists by calling code, in ascending order of the code.
\* The pairs by falling calling code.
RECURSIVE DescendingByCode(_)
DescendingByCode(map) ==
    IF DOMAIN map = {} THEN <<>>
    ELSE LET least == SetMin(DOMAIN map)
         IN  DescendingByCode([k \in DOMAIN map \ {least} |-> map[k]])
                 \o <<[code |-> least, regions |-> map[least]]>>

RECURSIVE SortedByCode(_)
SortedByCode(map) ==
    IF DOMAIN map = {} THEN <<>>
    ELSE LET least == SetMin(DOMAIN map)
         IN  <<[code |-> least, regions |-> map[least]]>>
                 \o SortedByCode([k \in DOMAIN map \ {least} |-> map[k]])

\* The loop of new_for_metadata over the collection.
RECURSIVE InsertMetadata(_, _, _)
InsertMetadata(instance, calling_code_map, collection) ==
    IF collection = <<>>
    THEN [instance EXCEPT
              !.country_calling_code_to_region_code_map = SortedByCode(calling_code_map)]
    ELSE
    LET metadata == Head(collection)
        region_code == metadata.id
        country_calling_code == metadata.country_code
        with_metadata ==
            IF REGION_CODE_FOR_NON_GEO_ENTITY = region_code
            THEN [instance EXCEPT !.country_code_to_non_geographical_metadata_map =
                      MapInsert(@, country_calling_code, metadata)]
            ELSE [instance EXCEPT !.region_to_metadata_map =
                      MapInsert(@, region_code, metadata)]
        with_nanpa ==
            IF country_calling_code = NANPA_COUNTRY_CODE
            THEN [with_metadata EXCEPT !.nanpa_regions = @ \cup {region_code}]
            ELSE with_metadata
        regions ==
            IF country_calling_code \in DOMAIN calling_code_map
            THEN IF metadata.main_country_for_code
                 THEN <<region_code>> \o calling_code_map[country_calling_code]
                 ELSE Append(calling_code_map[country_calling_code], region_code)
            ELSE <<region_code>>
    IN  IF UnknownRegion = region_code
        THEN InsertMetadata(instance, calling_code_map, Tail(collection))
        ELSE InsertMetadata(with_nanpa,
                            MapInsert(calling_code_map, country_calling_code, regions),
                            Tail(collection))

new_for_metadata(metadata_collection) ==
    InsertMetadata([country_calling_code_to_region_code_map |-> <<>>,
                    nanpa_regions |-> {},
                    region_to_metadata_map |-> EmptyMap,
                    country_code_to_non_geographical_metadata_map |-> EmptyMap],
                   EmptyMap, metadata_collection)

get_metadata_for_region(region_code) == MapGet(store.region_to_metadata_map, region_code)

\* binary_search_by_key over the sorted vector.
\* slice.binary_search_by_key(key, |(code, _)| *code).ok() between the
\* positions left (inclusive) and right (exclusive), counted from 0: the
\* position of a pair with the key that halving the range comes upon.
RECURSIVE BinarySearchBetween(_, _, _, _)
BinarySearchBetween(slice, key, left, right) ==
    IF left >= right THEN None
    ELSE LET mid == left + (right - left) \div 2
             code == slice[mid + 1].code
         IN  IF code = key THEN Some(mid)
             ELSE IF code < key THEN BinarySearchBetween(slice, key, mid + 1, right)
             ELSE BinarySearchBetween(slice, key, left, mid)

binary_search_by_key(slice, key) == BinarySearchBetween(slice, key, 0, Len(slice))

get_region_codes_for_country_calling_code(country_calling_code) ==
    LET index == binary_search_by_key(store.country_calling_code_to_region_code_map,
                                      country_calling_code)
    IN  IF index.some
        THEN Some(store.country_calling_code_to_region_code_map[index.value + 1].regions)
        ELSE None

\* The last region of the list of a calling code instead of the first.
LastRegionForCountryCode(country_calling_code) ==
    LET region_codes == get_region_codes_for_country_calling_code(country_calling_code)
    IN  IF region_codes.some /\ region_codes.value # <<>>
        THEN region_codes.value[Len(region_codes.value)] ELSE UnknownRegion

get_region_code_for_country_code(country_calling_code) ==
    LET region_codes == get_region_codes_for_country_calling_code(country_calling_code)
    IN  IF region_codes.some /\ region_codes.value # <<>>
        THEN Head(region_codes.value) ELSE UnknownRegion

get_metadata_for_region_or_calling_code(country_calling_code, region_code) ==
    IF REGION_CODE_FOR_NON_GEO_ENTITY = region_code
    THEN MapGet(store.country_code_to_non_geographical_metadata_map, country_calling_code)
    ELSE MapGet(store.region_to_metadata_map, region_code)

(***************************************************************************)
(* The country calling code of a number being parsed                       *)
(***************************************************************************)
\* The region check left out.
AnyRegionForParsing(number_to_parse, default_region) == TRUE

check_region_for_parsing(number_to_parse, default_region) ==
    \/ get_metadata_for_region(default_region).some
    \/ number_to_parse = <<>>
    \/ matches_start(plus_chars_pattern, number_to_parse)

\* The first decimal digit of a string, or -1.
RECURSIVE FirstDigitValue(_)
FirstDigitValue(str) ==
    IF str = <<>> THEN -1
    ELSE IF Head(str) \in AsciiDigits THEN DigitValue(Head(str))
    ELSE IF Head(str) \in DOMAIN WideDigits THEN DigitValue(WideDigits[Head(str)])
    ELSE FirstDigitValue(Tail(str))

parse_prefix_as_idd(phone_number, idd_pattern) ==
    Let(captures_start(idd_pattern, phone_number), LAMBDA idd_pattern_match :
        IF ~idd_pattern_match.found THEN None
        ELSE LET rest == Slice(phone_number, idd_pattern_match.end, Len(phone_number))
             IN  IF FirstDigitValue(rest) = 0 THEN None ELSE Some(rest))

maybe_strip_international_prefix_and_normalize(phone_number, possible_idd_prefix) ==
    Let(captures_start(plus_chars_pattern, phone_number), LAMBDA plus_match :
        IF phone_number = <<>>
        THEN [phone_number |-> phone_number,
              country_code_source |-> "FROM_DEFAULT_COUNTRY"]
        ELSE IF plus_match.found
        THEN [phone_number |->
                  normalize(Slice(phone_number, plus_match.end, Len(phone_number))),
              country_code_source |-> "FROM_NUMBER_WITH_PLUS_SIGN"]
        ELSE Let(normalize(phone_number), LAMBDA normalized_number :
             Let(parse_prefix_as_idd(normalized_number, RegexOf(possible_idd_prefix)),
                 LAMBDA stripped_prefix_number :
                 IF stripped_prefix_number.some
                 THEN [phone_number |-> stripped_prefix_number.value,
                       country_code_source |-> "FROM_NUMBER_WITH_IDD"]
                 ELSE [phone_number |-> normalized_number,
                       country_code_source |-> "FROM_DEFAULT_COUNTRY"])))

\* The loop of extract_country_code from prefix length i on: the slice
\* [0..i] panics when the number is shorter than i.
RECURSIVE ExtractCountryCodeFrom(_, _)
ExtractCountryCodeFrom(number, i) ==
    IF i > MAX_LENGTH_COUNTRY_CODE THEN None
    ELSE IF ~SliceInBounds(number, 0, i) THEN Panicked
    ELSE LET potential_country_code == I32FromStr(Slice(number, 0, i))
         IN  IF ~potential_country_code.ok THEN ExtractCountryCodeFrom(number, i + 1)
             ELSE IF get_region_code_for_country_code(potential_country_code.value)
                         # UnknownRegion
             THEN Some([number |-> Slice(number, i, Len(number)),
                        code |-> potential_country_code.value])
             ELSE ExtractCountryCodeFrom(number, i + 1)

extract_country_code(number) ==
    IF number = <<>> \/ Head(number) = "0" THEN None
    ELSE ExtractCountryCodeFrom(number, 0)

\* strip_prefix of string_util.rs
strip_cow_prefix(str, prefix) ==
    IF StartsWith(str, prefix) THEN Some(Slice(str, Len(prefix), Len(str))) ELSE None

\* The result of maybe_extract_country_code: what it returns and the
\* PhoneNumber it was given, as it has left it.
Extracted(result, phone_number) == [result |-> result, phone_number |-> phone_number]

\* The first of the two conditions alone.
BetterWhenMatching(number, potential_national_number, metadata) ==
    /\ ~is_match(number, metadata.general_desc)
    /\ is_match(potential_national_number, metadata.general_desc)

\* The number without the calling code of the default region is the better
\* result: it matches where the number did not, or the number was too long.
BetterWithoutCountryCode(number, potential_national_number, metadata) ==
    \/ /\ ~is_match(number, metadata.general_desc)
       /\ is_match(potential_national_number, metadata.general_desc)
    \/ test_number_length_with_unknown_type(number, metadata) = "TooLong"

\* No string is too short.
NeverTooShort(stripped) == FALSE

\* The test of maybe_extract_country_code that precedes extract_country_code.
TooShortAfterPrefix(stripped) == Len(stripped) <= MIN_LENGTH_FOR_NSN

maybe_extract_country_code(default_region_metadata, keep_raw_input, number, phone_number) ==
    LET possible_country_idd_prefix ==
            IF default_region_metadata.some
            THEN default_region_metadata.value.international_prefix
            ELSE "NonMatch"
    IN
    Let(maybe_strip_international_prefix_and_normalize(number,
                                                       possible_country_idd_prefix),
        LAMBDA with_source :
    LET stripped == with_source.phone_number
        sourced ==
            IF keep_raw_input
            THEN [phone_number EXCEPT
                      !.country_code_source = Some(with_source.country_code_source)]
            ELSE phone_number
    IN  IF with_source.country_code_source # "FROM_DEFAULT_COUNTRY"
        THEN IF TooShortAfterPrefix(stripped)
             THEN Extracted(Err("TooShortAfterIdd"), sourced)
             ELSE Let(extract_country_code(stripped), LAMBDA extracted :
                      IF extracted = Panicked THEN Extracted(Panicked, sourced)
                      ELSE IF ~extracted.some
                      THEN Extracted(Err("InvalidCountryCode"), sourced)
                      ELSE Extracted(Ok(extracted.value.number),
                               [sourced EXCEPT
                                    !.country_code = Some(extracted.value.code)]))
        ELSE
    LET no_code == Extracted(Ok(stripped), [sourced EXCEPT !.country_code = Some(0)])
    IN  IF ~default_region_metadata.some THEN no_code
        ELSE
    LET metadata == default_region_metadata.value
        default_country_code == metadata.country_code
        potential_national_number ==
            strip_cow_prefix(stripped, Itoa(default_country_code))
    IN  IF ~potential_national_number.some THEN no_code
        ELSE IF BetterWithoutCountryCode(stripped, potential_national_number.value,
                                         metadata)
        THEN Extracted(Ok(potential_national_number.value),
                 [sourced EXCEPT
                      !.country_code_source =
                          IF keep_raw_input THEN Some("FROM_NUMBER_WITHOUT_PLUS_SIGN")
                          ELSE @,
                      !.country_code = Some(default_country_code)])
        ELSE no_code)

\* chars().take_while(|c| *c == '0').count()
RECURSIVE CountLeadingZeros(_)
CountLeadingZeros(number) ==
    IF number # <<>> /\ Head(number) = "0" THEN 1 + CountLeadingZeros(Tail(number))
    ELSE 0

\* get_italian_leading_zeros_for_phone_number counting the last zero of an
\* all-zero number as a leading zero too.
get_italian_leading_zeros_counting_all(number) ==
    LET zero_count == CountLeadingZeros(number)
    IN  IF Len(number) < 2 \/ zero_count = 0 THEN None ELSE Some(zero_count)

\* get_italian_leading_zeros_for_phone_number telling only that there are
\* leading zeros, not how many.
get_italian_leading_zeros_flag_only(number) ==
    IF Len(number) < 2 \/ CountLeadingZeros(number) = 0 THEN None ELSE Some(1)

get_italian_leading_zeros_for_phone_number(number) ==
    LET zero_count == CountLeadingZeros(number)
    IN  IF Len(number) < 2 THEN None
        ELSE IF zero_count = 0 THEN None
        ELSE IF zero_count = Len(number) THEN Some(zero_count - 1)
        ELSE Some(zero_count)

(***************************************************************************)
(* parse_helper, parse and parse_and_keep_raw_input                        *)
(***************************************************************************)
\* The first attempt at the country calling code and, when it fails for an
\* invalid code on a number with a plus sign, the attempt without the sign.
\* The country calling code looked for once, without the second attempt.
ExtractOnce(country_metadata, keep_raw_input, number, temp_number) ==
    maybe_extract_country_code(country_metadata, keep_raw_input, number, temp_number)

\* The retry without the refusal of a second attempt that finds no calling
\* code.
RetryKeepingZero(country_metadata, keep_raw_input, number, temp_number) ==
    Let(maybe_extract_country_code(country_metadata, keep_raw_input,
                                   number, temp_number),
        LAMBDA first :
    Let(captures_start(plus_chars_pattern, number), LAMBDA plus_match :
        IF first.result.ok \/ first.result.error # "InvalidCountryCode" THEN first
        ELSE IF ~plus_match.found THEN first
        ELSE maybe_extract_country_code(country_metadata, keep_raw_input,
                                        Slice(number, plus_match.end, Len(number)),
                                        first.phone_number)))

ExtractWithRetry(country_metadata, keep_raw_input, number, temp_number) ==
    Let(maybe_extract_country_code(country_metadata, keep_raw_input,
                                   number, temp_number),
        LAMBDA first :
    Let(captures_start(plus_chars_pattern, number), LAMBDA plus_match :
        IF first.result.ok \/ first.result.error # "InvalidCountryCode" THEN first
        ELSE IF ~plus_match.found THEN first
        ELSE Let(maybe_extract_country_code(country_metadata, keep_raw_input,
                     Slice(number, plus_match.end, Len(number)),
                     first.phone_number),
                 LAMBDA second :
                 IF ~second.result.ok THEN second
                 ELSE IF country_code(second.phone_number) = 0
                 THEN Extracted(Err("InvalidCountryCode"), second.phone_number)
                 ELSE second)))

\* The national prefix and carrier code are stripped unless what is left is
\* too short, of no possible length or possible only locally.
\* The stripped number committed whatever its length.
StripAlways(country_metadata, keep_raw_input, normalized, temp_number) ==
    Let(maybe_strip_national_prefix_and_carrier_code(country_metadata, normalized),
        LAMBDA stripped :
        [number |-> stripped.number,
         phone_number |->
             IF stripped.carrier_code.some /\ keep_raw_input
             THEN [temp_number EXCEPT
                       !.preferred_domestic_carrier_code = stripped.carrier_code]
             ELSE temp_number])

StripNationalPrefix(country_metadata, keep_raw_input, normalized, temp_number) ==
    Let(maybe_strip_national_prefix_and_carrier_code(country_metadata, normalized),
        LAMBDA stripped :
    LET validation_result ==
            test_number_length_with_unknown_type(stripped.number, country_metadata)
    IN  IF validation_result \in {"IsPossibleLocalOnly", "TooShort", "InvalidLength"}
        THEN [number |-> normalized, phone_number |-> temp_number]
        ELSE [number |-> stripped.number,
              phone_number |->
                  IF stripped.carrier_code.some /\ keep_raw_input
                  THEN [temp_number EXCEPT
                            !.preferred_domestic_carrier_code = stripped.carrier_code]
                  ELSE temp_number])

\* u64::from_str_radix(digits, 10) succeeds on ASCII digits after an
\* optional plus sign; up to MAX_LENGTH_FOR_NSN digits are below 2^64.
IsU64(digits) ==
    LET unsigned == IF digits # <<>> /\ Head(digits) = "+" THEN Tail(digits)
                    ELSE digits
    IN  unsigned # <<>> /\ \A c \in Range(unsigned) : c \in AsciiDigits

\* The leading zeros and the conversion of the national number.
WithNationalNumber(normalized_national_number, parsed_country_code, temp_number) ==
    Let(get_italian_leading_zeros_for_phone_number(normalized_national_number),
        LAMBDA zeroes_count :
    LET with_code == [temp_number EXCEPT !.country_code = Some(parsed_country_code)]
        with_zeros ==
            IF ~zeroes_count.some THEN with_code
            ELSE [with_code EXCEPT
                      !.italian_leading_zero = Some(TRUE),
                      !.number_of_leading_zeros =
                          IF zeroes_count.value > 1 THEN Some(zeroes_count.value)
                          ELSE @]
    IN  IF ~IsU64(normalized_national_number)
        THEN Err("NotANumber(FailedToParseNumberAsInt)")
        ELSE Ok([with_zeros EXCEPT
                     !.national_number =
                         Some(U64FromStr(SelectSeq(normalized_national_number,
                                                   LAMBDA c : c # "+")))]))

\* The end of parse_helper: the length limits, the leading zeros and the
\* conversion of the national number.
\* The number built without the two length limits.
FinishWithoutLimits(normalized_national_number, parsed_country_code, temp_number) ==
    WithNationalNumber(normalized_national_number, parsed_country_code, temp_number)

FinishNumber(normalized_national_number, parsed_country_code, temp_number) ==
    IF Len(normalized_national_number) < MIN_LENGTH_FOR_NSN THEN Err("TooShortNsn")
    ELSE IF Len(normalized_national_number) > MAX_LENGTH_FOR_NSN
    THEN Err("TooLongNsn")
    ELSE WithNationalNumber(normalized_national_number, parsed_country_code,
                            temp_number)

\* parse_helper up to the country calling code: the error it returns before
\* it has one, or the number that is left with temp_number as it then is.
\* The first stages with the region tested before the viability.
RegionCheckedFirst(number_to_parse, default_region, keep_raw_input, check_region) ==
    Let(build_national_number_for_parsing(number_to_parse), LAMBDA built :
        IF ~built.ok THEN built
        ELSE IF check_region /\ ~check_region_for_parsing(built.value, default_region)
        THEN Err("InvalidCountryCode")
        ELSE IF ~is_viable_phone_number(built.value)
        THEN Err("NotANumber(NotMatchedValidNumberPattern)")
        ELSE
    Let(maybe_strip_extension(built.value), LAMBDA without_extension :
    Let(ExtractWithRetry(get_metadata_for_region(default_region), keep_raw_input,
                         without_extension.number,
                         [PhoneNumber_new EXCEPT
                              !.raw_input =
                                  IF keep_raw_input THEN Some(number_to_parse) ELSE None,
                              !.extension = without_extension.extension]),
        LAMBDA extracted :
        IF ~extracted.result.ok THEN extracted.result
        ELSE Ok([number |-> extracted.result.value,
                 phone_number |-> extracted.phone_number]))))

CountryCodeExtracted(number_to_parse, default_region, keep_raw_input, check_region) ==
    Let(build_national_number_for_parsing(number_to_parse), LAMBDA built :
        IF ~built.ok THEN built
        ELSE IF ~is_viable_phone_number(built.value)
        THEN Err("NotANumber(NotMatchedValidNumberPattern)")
        ELSE IF check_region /\ ~check_region_for_parsing(built.value, default_region)
        THEN Err("InvalidCountryCode")
        ELSE
    LET with_raw_input ==
            IF keep_raw_input
            THEN [PhoneNumber_new EXCEPT !.raw_input = Some(number_to_parse)]
            ELSE PhoneNumber_new
    IN
    Let(maybe_strip_extension(built.value), LAMBDA without_extension :
    Let(ExtractWithRetry(get_metadata_for_region(default_region), keep_raw_input,
                         without_extension.number,
                         [with_raw_input EXCEPT
                              !.extension = without_extension.extension]),
        LAMBDA extracted :
        IF ~extracted.result.ok THEN extracted.result
        ELSE Ok([number |-> extracted.result.value,
                 phone_number |-> extracted.phone_number]))))

\* parse_helper from the country calling code up to its last length limits:
\* the error it returns before them, or normalized_national_number with the
\* calling code and temp_number as they are when the limits are tested.
Normalized(extracted, default_region, keep_raw_input) ==
        IF ~extracted.ok THEN extracted
        ELSE
    Let(get_metadata_for_region(default_region), LAMBDA default_metadata :
    Let(country_code(extracted.value.phone_number), LAMBDA extracted_code :
    Let(get_region_code_for_country_code(extracted_code), LAMBDA phone_number_region :
    Let(IF extracted_code # 0 /\ phone_number_region # default_region
        THEN get_metadata_for_region_or_calling_code(extracted_code,
                                                     phone_number_region)
        ELSE default_metadata,
        LAMBDA country_metadata :
    LET parsed_country_code ==
            IF extracted_code = 0 /\ country_metadata.some
            THEN country_metadata.value.country_code
            ELSE extracted_code
        normalized == extracted.value.number
    IN  IF Len(normalized) < MIN_LENGTH_FOR_NSN THEN Err("TooShortNsn")
        ELSE IF ~country_metadata.some
        THEN Ok([number |-> normalized, country_code |-> parsed_country_code,
                 phone_number |-> extracted.value.phone_number])
        ELSE Let(StripNationalPrefix(country_metadata.value, keep_raw_input,
                                     normalized, extracted.value.phone_number),
                 LAMBDA stripped :
                 Ok([number |-> stripped.number,
                     country_code |-> parsed_country_code,
                     phone_number |-> stripped.phone_number]))))))

parse_helper(number_to_parse, default_region, keep_raw_input, check_region) ==
    Let(Normalized(CountryCodeExtracted(number_to_parse, default_region,
                                        keep_raw_input, check_region),
                   default_region, keep_raw_input),
        LAMBDA normalized :
        IF ~normalized.ok THEN normalized
        ELSE FinishNumber(normalized.value.number, normalized.value.country_code,
                          normalized.value.phone_number))

\* parse with the flag of parse_and_keep_raw_input.
parse_with_raw_input(number_to_parse, default_region) ==
    parse_helper(number_to_parse, default_region, TRUE, TRUE)

parse(number_to_parse, default_region) ==
    parse_helper(number_to_parse, default_region, FALSE, TRUE)

parse_and_keep_raw_input(number_to_parse, default_region) ==
    parse_helper(number_to_parse, default_region, TRUE, TRUE)

(***************************************************************************)
(* The metadata collection the instance is built from: two regions that    *)
(* share calling code 1, a region whose national prefix is written in its  *)
(* national format, a region whose numbers keep a leading zero, a region   *)
(* whose national prefix is also the first digit of some of its numbers,   *)
(* and a non-geographical entity.                                          *)
(***************************************************************************)
BS ==
    [PhoneMetadata_new EXCEPT
        !.id = "BS", !.country_code = 1, !.international_prefix = "011",
        !.national_prefix = <<"1">>, !.national_prefix_for_parsing = "1",
        !.general_desc = Desc("24\\d{2}", <<4>>, <<>>),
        !.fixed_line = Desc("24\\d{2}", <<4>>, <<>>)]

US ==
    [PhoneMetadata_new EXCEPT
        !.id = "US", !.country_code = 1, !.international_prefix = "011",
        !.national_prefix = <<"1">>, !.national_prefix_for_parsing = "1",
        !.main_country_for_code = TRUE,
        !.same_mobile_and_fixed_line_pattern = TRUE,
        !.general_desc = Desc("[2-9]\\d{3}", <<4>>, <<3>>),
        !.fixed_line = Desc("[2-9]\\d{3}", <<4>>, <<3>>),
        !.mobile = Desc("[2-9]\\d{3}", <<4>>, <<3>>),
        !.number_format = <<NumberFormat("(\\d)(\\d{3})", <<"$", "1", " ", "$", "2">>,
                                         <<>>)>>]

GB ==
    [PhoneMetadata_new EXCEPT
        !.id = "GB", !.country_code = 44, !.international_prefix = "00",
        !.national_prefix = <<"0">>, !.national_prefix_for_parsing = "0(81)?",
        !.preferred_extn_prefix = Some(<<" ", "x">>),
        !.general_desc = Desc("[1-9]\\d{3,4}", <<4, 5>>, <<>>),
        !.fixed_line = Desc("[1-6]\\d{3}", <<4>>, <<>>),
        !.mobile = Desc("7\\d{4}", <<5>>, <<>>),
        !.number_format = <<NumberFormat("(\\d{2})(\\d{2,3})",
                                         <<"$", "1", " ", "$", "2">>,
                                         <<"(", "0", "$", "1", ")">>)>>]

IT ==
    [PhoneMetadata_new EXCEPT
        !.id = "IT", !.country_code = 39, !.international_prefix = "00",
        !.general_desc = Desc("[03]\\d{3}", <<4>>, <<>>),
        !.fixed_line = Desc("0\\d{3}", <<4>>, <<>>),
        !.mobile = Desc("3\\d{3}", <<4>>, <<>>),
        !.number_format = <<NumberFormat("(\\d{2})(\\d{2})",
                                         <<"$", "1", " ", "$", "2">>, <<>>)>>]

RU ==
    [PhoneMetadata_new EXCEPT
        !.id = "RU", !.country_code = 7, !.international_prefix = "810",
        !.national_prefix = <<"8">>, !.national_prefix_for_parsing = "8",
        !.same_mobile_and_fixed_line_pattern = TRUE,
        !.general_desc = Desc("[348]\\d{3,4}", <<4, 5>>, <<>>),
        !.fixed_line = Desc("[348]\\d{3,4}", <<4, 5>>, <<>>),
        !.mobile = Desc("[348]\\d{3,4}", <<4, 5>>, <<>>)]

UN001 ==
    [PhoneMetadata_new EXCEPT
        !.id = "001", !.country_code = 800,
        !.general_desc = Desc("\\d{4}", <<4>>, <<>>),
        !.toll_free = Desc("\\d{4}", <<4>>, <<>>),
        !.number_format = <<NumberFormat("(\\d{2})(\\d{2})",
                                         <<"$", "1", " ", "$", "2">>, <<>>)>>]

metadata_collection == <<BS, US, GB, IT, RU, UN001>>

(***************************************************************************)
(* format and what it calls                                                *)
(***************************************************************************)
PhoneNumberFormat == {"E164", "International", "National", "RFC3966"}

RECURSIVE Repeat(_, _)
Repeat(c, n) == IF n <= 0 THEN <<>> ELSE <<c>> \o Repeat(c, n - 1)

get_national_significant_number(phone_number) ==
    LET zeros_start ==
            IF italian_leading_zero(phone_number)
            THEN Repeat("0", number_of_leading_zeros(phone_number))
            ELSE <<>>
    IN  zeros_start \o national_number(phone_number)

prefix_number_with_country_calling_code(country_calling_code, number_format, formatted_number) ==
    CASE number_format = "National" -> formatted_number
      [] number_format = "E164" ->
            <<PLUS_SIGN>> \o Itoa(country_calling_code) \o formatted_number
      [] number_format = "International" ->
            <<PLUS_SIGN>> \o Itoa(country_calling_code) \o <<" ">> \o formatted_number
      [] number_format = "RFC3966" ->
            RFC3966_PREFIX \o <<PLUS_SIGN>> \o Itoa(country_calling_code) \o <<"-">>
                \o formatted_number

\* Regex::replace_all: every match from offset i on is replaced; an empty
\* match next to the match before it is passed over.
RECURSIVE ReplaceAllFrom(_, _, _, _, _)
ReplaceAllFrom(re, s, rule, i, last_end) ==
    Let(FindFrom(re, s, i),
        LAMBDA m :
            IF ~m.found THEN Slice(s, last_end, Len(s))
            ELSE IF m.end = m.start /\ m.end = last_end /\ i > 0
            THEN ReplaceAllFrom(re, s, rule, i + 1, last_end)
            ELSE Slice(s, last_end, m.start) \o Expand(rule, m, s)
                     \o ReplaceAllFrom(re, s, rule,
                                       IF m.end = m.start THEN m.end + 1 ELSE m.end,
                                       m.end))

replace_all(re, s, rule) == ReplaceAllFrom(re, s, rule, 0, 0)

first_group_capturing_pattern ==
    [groups |-> 1, ast |-> Group(1, Cat(<<Lit("$"), Digit>>))]

separator_pattern == [groups |-> 0, ast |-> Plus(Class(VALID_PUNCTUATION))]

\* The last leading-digits pattern of a format, if it has one, must match
\* the start of the number.
LeadingDigitsMatch(format, number) ==
    \/ format.leading_digits_pattern = <<>>
    \/ matches_start(RegexOf(Nth(format.leading_digits_pattern,
                                 Len(format.leading_digits_pattern))), number)

RECURSIVE choose_formatting_pattern_for_number(_, _)
choose_formatting_pattern_for_number(available_formats, number) ==
    IF available_formats = <<>> THEN None
    ELSE IF /\ LeadingDigitsMatch(Head(available_formats), number)
            /\ full_match(RegexOf(Head(available_formats).pattern), number)
    THEN Some(Head(available_formats))
    ELSE choose_formatting_pattern_for_number(Tail(available_formats), number)

\* The formatting rule with the national prefix rule put in place of the
\* first group, in the national format.
NumberFormatRule(formatting_pattern, number_format) ==
    IF /\ number_format = "National"
       /\ formatting_pattern.national_prefix_formatting_rule # <<>>
    THEN Replace(first_group_capturing_pattern, formatting_pattern.format,
                 formatting_pattern.national_prefix_formatting_rule)
    ELSE formatting_pattern.format

format_nsn_using_pattern(number, formatting_pattern, number_format) ==
    Let(replace_all(RegexOf(formatting_pattern.pattern), number,
                    NumberFormatRule(formatting_pattern, number_format)),
        LAMBDA formatted_number :
    Let(captures_start(separator_pattern, formatted_number), LAMBDA leading :
    LET rest == IF leading.found
                THEN Slice(formatted_number, leading.end, Len(formatted_number))
                ELSE formatted_number
    IN  IF number_format = "RFC3966" THEN replace_all(separator_pattern, rest, <<"-">>)
        ELSE formatted_number))

format_nsn(number, metadata, number_format) ==
    LET available_formats ==
            IF metadata.intl_number_format = <<>> \/ number_format = "National"
            THEN metadata.number_format
            ELSE metadata.intl_number_format
    IN  Let(choose_formatting_pattern_for_number(available_formats, number),
            LAMBDA formatting_pattern :
            IF formatting_pattern.some
            THEN format_nsn_using_pattern(number, formatting_pattern.value,
                                          number_format)
            ELSE number)

get_formatted_extension(phone_number, metadata, number_format) ==
    IF ~phone_number.extension.some \/ extension(phone_number) = <<>> THEN <<>>
    ELSE (IF number_format = "RFC3966" THEN RFC3966_EXTN_PREFIX
          ELSE IF metadata.preferred_extn_prefix.some
          THEN metadata.preferred_extn_prefix.value
          ELSE DEFAULT_EXTN_PREFIX) \o extension(phone_number)

\* format without the early exit of the E164 style.
format_through_metadata(phone_number, number_format) ==
    LET country_calling_code == country_code(phone_number)
        nsn == get_national_significant_number(phone_number)
        region_code == get_region_code_for_country_code(country_calling_code)
        metadata == get_metadata_for_region_or_calling_code(country_calling_code,
                                                            region_code)
    IN  IF national_number(phone_number) = <<"0">> /\ raw_input(phone_number) # <<>>
        THEN raw_input(phone_number)
        ELSE IF metadata.some
        THEN prefix_number_with_country_calling_code(country_calling_code, number_format,
                 format_nsn(nsn, metadata.value, number_format)
                     \o get_formatted_extension(phone_number, metadata.value,
                                                number_format))
        ELSE nsn

format(phone_number, number_format) ==
    LET country_calling_code == country_code(phone_number)
        nsn == get_national_significant_number(phone_number)
        region_code == get_region_code_for_country_code(country_calling_code)
        metadata == get_metadata_for_region_or_calling_code(country_calling_code,
                                                            region_code)
    IN  IF national_number(phone_number) = <<"0">> /\ raw_input(phone_number) # <<>>
        THEN raw_input(phone_number)
        ELSE IF number_format = "E164"
        THEN prefix_number_with_country_calling_code(country_calling_code, "E164", nsn)
        ELSE IF metadata.some
        THEN prefix_number_with_country_calling_code(country_calling_code, number_format,
                 format_nsn(nsn, metadata.value, number_format)
                     \o get_formatted_extension(phone_number, metadata.value,
                                                number_format))
        ELSE nsn

(***************************************************************************)
(* is_valid_number and what it calls                                       *)
(***************************************************************************)
is_number_matching_desc(number, number_desc) ==
    IF /\ Len(number_desc.possible_length) > 0
       /\ ~Contains(number_desc.possible_length, Len(number))
    THEN FALSE
    ELSE is_match(number, number_desc)

\* get_number_type_helper after the test of the general descriptor.
TypeAmongSpecific(number, metadata) ==
    IF is_number_matching_desc(number, metadata.premium_rate) THEN "PremiumRate"
    ELSE IF is_number_matching_desc(number, metadata.toll_free) THEN "TollFree"
    ELSE IF is_number_matching_desc(number, metadata.shared_cost) THEN "SharedCost"
    ELSE IF is_number_matching_desc(number, metadata.voip) THEN "VoIP"
    ELSE IF is_number_matching_desc(number, metadata.personal_number)
    THEN "PersonalNumber"
    ELSE IF is_number_matching_desc(number, metadata.pager) THEN "Pager"
    ELSE IF is_number_matching_desc(number, metadata.uan) THEN "UAN"
    ELSE IF is_number_matching_desc(number, metadata.voicemail) THEN "VoiceMail"
    ELSE IF is_number_matching_desc(number, metadata.fixed_line)
    THEN IF metadata.same_mobile_and_fixed_line_pattern THEN "FixedLineOrMobile"
         ELSE IF is_number_matching_desc(number, metadata.mobile)
         THEN "FixedLineOrMobile"
         ELSE "FixedLine"
    ELSE IF /\ ~metadata.same_mobile_and_fixed_line_pattern
            /\ is_number_matching_desc(number, metadata.mobile)
    THEN "Mobile"
    ELSE "Unknown"

\* The type looked up without the test of the general descriptor.
TypeWithoutGeneral(number, metadata) == TypeAmongSpecific(number, metadata)

get_number_type_helper(number, metadata) ==
    IF ~is_number_matching_desc(number, metadata.general_desc) THEN "Unknown"
    ELSE TypeAmongSpecific(number, metadata)

RECURSIVE get_region_code_for_number_from_region_list(_, _)
get_region_code_for_number_from_region_list(phone_number, region_codes) ==
    IF region_codes = <<>> THEN Ok(UnknownRegion)
    ELSE
    LET code == Head(region_codes)
        metadata == get_metadata_for_region(code)
        nsn == get_national_significant_number(phone_number)
    IN  IF ~metadata.some THEN Err("InvalidMetadataForValidRegionError")
        ELSE IF metadata.value.leading_digits.some
        THEN IF matches_start(RegexOf(metadata.value.leading_digits.value), nsn)
             THEN Ok(code)
             ELSE get_region_code_for_number_from_region_list(phone_number,
                                                              Tail(region_codes))
        ELSE IF get_number_type_helper(nsn, metadata.value) # "Unknown" THEN Ok(code)
        ELSE get_region_code_for_number_from_region_list(phone_number,
                                                         Tail(region_codes))

get_region_code_for_number(phone_number) ==
    LET region_codes ==
            get_region_codes_for_country_calling_code(country_code(phone_number))
    IN  IF ~region_codes.some \/ region_codes.value = <<>> THEN Ok(UnknownRegion)
        ELSE IF Len(region_codes.value) = 1 THEN Ok(Head(region_codes.value))
        ELSE get_region_code_for_number_from_region_list(phone_number,
                                                         region_codes.value)

is_valid_number_for_region(phone_number, region_code) ==
    LET metadata == get_metadata_for_region_or_calling_code(country_code(phone_number),
                                                            region_code)
    IN  IF /\ metadata.some
           /\ ~(/\ REGION_CODE_FOR_NON_GEO_ENTITY # region_code
                /\ country_code(phone_number) # metadata.value.country_code)
        THEN get_number_type_helper(get_national_significant_number(phone_number),
                                    metadata.value) # "Unknown"
        ELSE FALSE

is_valid_number(phone_number) ==
    Let(get_region_code_for_number(phone_number), LAMBDA region_code :
        IF ~region_code.ok THEN region_code
        ELSE Ok(is_valid_number_for_region(phone_number, region_code.value)))

(***************************************************************************)
(* parse and parse_and_keep_raw_input applied to strings put together from *)
(* the parts of a written number: a scheme, a prefix, the national part,   *)
(* an extension, the parameters of a tel: URI and what follows them.       *)
(***************************************************************************)
\* The scheme of a URI, or none.
Schemes ==
    {<<>>,
     <<"t", "e", "l", ":">>}

\* A plus sign, a calling code, an international or national prefix.
Prefixes ==
    {<<>>,
     <<"+">>,
     <<"+", "1">>,
     <<"+", "4", "4", " ">>,
     <<"+", "7">>,
     <<"0", "1", "1", " ", "4", "4">>,
     <<"1">>,
     <<"0">>}

\* The digits of the number, with punctuation or letters.
NationalParts ==
    {<<>>,
     <<"2", "3", "4">>,
     <<"2", "3", "4", "5">>,
     <<"(", "0", ")", "1", "2", "3", "4">>,
     <<"8", "4", "1", "2", "3">>,
     <<"2", "-", "f", "a", "x">>}

\* An extension, as written by hand or in a URI.
Extensions ==
    {<<>>,
     <<" ", "x", "7">>,
     <<";", "e", "x", "t", "=", "7">>}

\* The parameters of a URI.
Parameters ==
    {<<>>,
     <<";", "p", "h", "o", "n", "e", "-", "c", "o", "n", "t", "e", "x", "t", "=", "+", "1">>,
     <<";", "p", "h", "o", "n", "e", "-", "c", "o", "n", "t", "e", "x", "t", "=", "a", ".", "c", "o", "m">>,
     <<";", "p", "h", "o", "n", "e", "-", "c", "o", "n", "t", "e", "x", "t", "=">>,
     <<";", "i", "s", "u", "b", "=", "1">>}

\* What follows the parameters.
Trailers ==
    {<<>>,
     <<";", "t", "e", "l", ":">>}


ParseInputs ==
    {scheme \o prefix \o number \o ext \o parameter \o trailer :
        scheme \in Schemes, prefix \in Prefixes, number \in NationalParts,
        ext \in Extensions, parameter \in Parameters, trailer \in Trailers}

\* A supported region, a region with another international prefix and the
\* unknown region.
DefaultRegions == {"US", "GB", UnknownRegion}

ParseCalls ==
    [op : {"parse", "parse_and_keep_raw_input"},
     number_to_parse : ParseInputs, default_region : DefaultRegions]

InitParse ==
    /\ call \in ParseCalls
    /\ ret = Pending
    /\ store = new_for_metadata(metadata_collection)
    /\ CacheUnused

Parse ==
    /\ call.op = "parse"
    /\ ret = Pending
    /\ ret' = parse(call.number_to_parse, call.default_region)
    /\ UNCHANGED <<call, cache_vars, store>>

ParseAndKeepRawInput ==
    /\ call.op = "parse_and_keep_raw_input"
    /\ ret = Pending
    /\ ret' = parse_and_keep_raw_input(call.number_to_parse, call.default_region)
    /\ UNCHANGED <<call, cache_vars, store>>

NextParse == Parse \/ ParseAndKeepRawInput

SpecParse == InitParse /\ [][NextParse]_vars

ParseReturned == call.op \in {"parse", "parse_and_keep_raw_input"} /\ ret # Pending

\* ParseError of errors.rs, NotANumber with its sub-kinds.
ParseErrors ==
    {"InvalidCountryCode",
     "NotANumber(NotMatchedValidNumberPattern)",
     "NotANumber(InvalidPhoneContext)",
     "NotANumber(FailedToParseNumberAsInt)",
     "NotANumber(FailedToExtractNumber(NoValidStartCharacter))",
     "NotANumber(FailedToExtractNumber(NotANumber))",
     "TooShortAfterIdd", "TooShortNsn", "TooLongNsn"}

\* C1: for every input string and every default region, parse and
\* parse_and_keep_raw_input return either a PhoneNumber or one of the typed
\* parse errors; no input, whatever its arrangement of "tel:",
\* ";phone-context=" and ";isub=", makes the parser panic.
C1_ParseNeverPanics ==
    ParseReturned => ret.ok \/ ret.error \in ParseErrors

\* Where C1 fails: "tel:" occurs after ";phone-context=", so the slice
\* number_to_parse[index_of_national_number..index_of_phone_context] begins
\* after its end.
C1_PanicOnTelAfterPhoneContext ==
    /\ ParseReturned
    /\ call.number_to_parse = <<"0",";","p","h","o","n","e","-","c","o","n","t","e","x","t","=","+","1",";","t","e","l",":">>
    /\ ret = Panicked

(***************************************************************************)
(* format in the international format followed by parse of what it wrote,  *)
(* applied to PhoneNumber values of every calling code of the collection.  *)
(***************************************************************************)
RoundTripCountryCodes == {1, 7, 39, 44, 800}

\* National numbers as decimal numerals, the way itoa writes a u64.
RoundTripNationalNumbers ==
    {<<"0">>, <<"3", "4">>, <<"2", "3", "4">>, <<"2", "3", "4", "5">>,
     <<"2", "4", "2", "5">>, <<"1", "2", "3", "4">>, <<"7", "1", "2", "3", "4">>,
     <<"4", "1", "2", "3">>, <<"8", "4", "1", "2", "3">>}

RoundTripLeadingZeroFlags == {None, Some(FALSE), Some(TRUE)}

RoundTripLeadingZeroCounts == {None, Some(1), Some(2), Some(3)}

RoundTripExtensions ==
    {None, Some(<<>>), Some(<<"7">>), Some(<<"a", "b", "c">>),
     Some(<<"1", "2", "3", "4", "5", "6", "7", "8", "9", "0">>)}

RoundTripRawInputs == {None, Some(<<"x">>)}

RoundTripNumbers ==
    {[PhoneNumber_new EXCEPT
          !.country_code = Some(code), !.national_number = Some(number),
          !.italian_leading_zero = flag, !.number_of_leading_zeros = count,
          !.extension = ext, !.raw_input = raw] :
        code \in RoundTripCountryCodes, number \in RoundTripNationalNumbers,
        flag \in RoundTripLeadingZeroFlags, count \in RoundTripLeadingZeroCounts,
        ext \in RoundTripExtensions, raw \in RoundTripRawInputs}

RoundTripCalls ==
    [op : {"round_trip"}, phone_number : RoundTripNumbers,
     default_region : DefaultRegions]

IsValid(phone_number) ==
    Let(is_valid_number(phone_number), LAMBDA valid : valid.ok /\ valid.value)

\* The numbers drawn are the valid ones.
InitRoundTrip ==
    /\ store = new_for_metadata(metadata_collection)
    /\ call \in RoundTripCalls
    /\ IsValid(call.phone_number)
    /\ ret = Pending
    /\ CacheUnused

\* format(n, International)
FormatInternational ==
    /\ call.op = "round_trip"
    /\ ret = Pending
    /\ ret' = [formatted |-> format(call.phone_number, "International")]
    /\ UNCHANGED <<call, cache_vars, store>>

\* parse of the formatted number with the default region of the call
ParseFormatted ==
    /\ call.op = "round_trip"
    /\ DOMAIN ret = {"formatted"}
    /\ ret' = [formatted |-> ret.formatted,
               parsed |-> parse(ret.formatted, call.default_region)]
    /\ UNCHANGED <<call, cache_vars, store>>

NextRoundTrip == FormatInternational \/ ParseFormatted

SpecRoundTrip == InitRoundTrip /\ [][NextRoundTrip]_vars

RoundTripDone == call.op = "round_trip" /\ DOMAIN ret = {"formatted", "parsed"}

\* The leading zeros a number is written with: none unless
\* italian_leading_zero is set and number_of_leading_zeros is positive.
LeadingZeros(phone_number) ==
    IF italian_leading_zero(phone_number) /\ number_of_leading_zeros(phone_number) > 0
    THEN number_of_leading_zeros(phone_number)
    ELSE 0

\* Equality in calling code, national number, extension and leading zeros.
SameNumber(first, second) ==
    /\ country_code(first) = country_code(second)
    /\ national_number(first) = national_number(second)
    /\ extension(first) = extension(second)
    /\ LeadingZeros(first) = LeadingZeros(second)

\* The extension is one every extension label admits: empty, or one to nine
\* ASCII digits.
ExtensionIsParsed(phone_number) ==
    /\ Len(extension(phone_number)) <= 9
    /\ \A c \in Range(extension(phone_number)) : c \in AsciiDigits

\* format writes the number rather than its raw input.
NumberIsWritten(phone_number) ==
    national_number(phone_number) # <<"0">> \/ raw_input(phone_number) = <<>>

\* parse leaves the national significant number as it is: it does not begin
\* with a national prefix whose removal leaves a possible number.
NationalPrefixKept(phone_number) ==
    LET metadata ==
            get_metadata_for_region_or_calling_code(
                country_code(phone_number),
                get_region_code_for_country_code(country_code(phone_number)))
        nsn == get_national_significant_number(phone_number)
    IN  metadata.some =>
            StripNationalPrefix(metadata.value, FALSE, nsn, PhoneNumber_new).number = nsn

\* C6 as stated: for every valid PhoneNumber n and every default region,
\* the unknown region included, parse(format(n, International), region)
\* succeeds and returns a number equal to n in calling code, national
\* number, extension and leading zeros.
C6_RoundTripOfValid ==
    RoundTripDone /\ IsValid(call.phone_number)
        => ret.parsed.ok /\ SameNumber(ret.parsed.value, call.phone_number)

\* C6, amended: the round trip returns an equal number for every valid n
\* whose extension is empty or one to nine ASCII digits, whose national
\* number is not zero when it carries a raw input, and whose national
\* significant number parse does not take a national prefix from.
C6_RoundTrip ==
    /\ RoundTripDone
    /\ IsValid(call.phone_number)
    /\ ExtensionIsParsed(call.phone_number)
    /\ NumberIsWritten(call.phone_number)
    /\ NationalPrefixKept(call.phone_number)
    => ret.parsed.ok /\ SameNumber(ret.parsed.value, call.phone_number)

\* A valid number with two leading zeros and an extension has made the
\* round trip from the unknown region.
C6_Witness ==
    /\ RoundTripDone
    /\ IsValid(call.phone_number)
    /\ ExtensionIsParsed(call.phone_number)
    /\ NumberIsWritten(call.phone_number)
    /\ NationalPrefixKept(call.phone_number)
    /\ LeadingZeros(call.phone_number) = 2
    /\ extension(call.phone_number) = <<"7">>
    /\ call.default_region = UnknownRegion
    /\ ret.parsed.ok

(***************************************************************************)
(* format_in_original_format and what it calls                             *)
(***************************************************************************)
diallable_char_mappings == [c \in AsciiDigits \cup {"+", "*", "#"} |-> c]

normalize_diallable_chars_only(phone_number) ==
    normalize_helper(diallable_char_mappings, TRUE, phone_number)

\* [\d]+(?:[~⁓∼～][\d]+)?
single_international_prefix ==
    [groups |-> 0,
     ast |-> Cat(<<Plus(Digit),
                   Opt(Cat(<<Class({"~", "U+2053", "U+223C", "U+FF5E"}),
                             Plus(Digit)>>))>>)]

\* The characters of the international prefixes of the collection.
InternationalPrefixText(international_prefix) ==
    CASE international_prefix = "011" -> <<"0", "1", "1">>
      [] international_prefix = "00" -> <<"0", "0">>
      [] international_prefix = "810" -> <<"8", "1", "0">>
      [] international_prefix = "" -> <<>>

EndsWith(str, suffix) ==
    /\ Len(suffix) <= Len(str)
    /\ Slice(str, Len(str) - Len(suffix), Len(str)) = suffix

\* str::replace
RECURSIVE StrReplace(_, _, _)
StrReplace(str, from, to) ==
    LET at == IndexOf(str, from)
    IN  IF at < 0 THEN str
        ELSE Slice(str, 0, at) \o to
                 \o StrReplace(Slice(str, at + Len(from), Len(str)), from, to)

has_valid_country_calling_code(country_calling_code) ==
    \E pair \in Range(store.country_calling_code_to_region_code_map) :
        pair.code = country_calling_code

get_ndd_prefix_for_region(region_code, strip_non_digits) ==
    LET metadata == MapGet(store.region_to_metadata_map, region_code)
    IN  IF ~metadata.some THEN None
        ELSE IF strip_non_digits
        THEN Some(SelectSeq(metadata.value.national_prefix, LAMBDA c : c # "~"))
        ELSE Some(metadata.value.national_prefix)

format_by_pattern(phone_number, number_format, user_defined_formats) ==
    LET country_calling_code == country_code(phone_number)
        national_significant_number == get_national_significant_number(phone_number)
        region_code == get_region_code_for_country_code(country_calling_code)
        metadata == get_metadata_for_region_or_calling_code(country_calling_code,
                                                            region_code)
    IN  IF ~metadata.some THEN national_significant_number
        ELSE
    Let(choose_formatting_pattern_for_number(user_defined_formats,
                                             national_significant_number),
        LAMBDA formatting_pattern :
    LET national_prefix_formatting_rule ==
            formatting_pattern.value.national_prefix_formatting_rule
        national_prefix == metadata.value.national_prefix
        num_format_copy ==
            IF national_prefix_formatting_rule = <<>> THEN formatting_pattern.value
            ELSE IF national_prefix # <<>>
            THEN [formatting_pattern.value EXCEPT
                      !.national_prefix_formatting_rule =
                          StrReplace(StrReplace(national_prefix_formatting_rule,
                                                <<"$", "N", "P">>, national_prefix),
                                     <<"$", "F", "G">>, <<"$", "1">>)]
            ELSE [formatting_pattern.value EXCEPT
                      !.national_prefix_formatting_rule = <<>>]
        formatted_number ==
            IF formatting_pattern.some
            THEN format_nsn_using_pattern(national_significant_number, num_format_copy,
                                          number_format)
            ELSE national_significant_number
    IN  prefix_number_with_country_calling_code(
            country_calling_code, number_format,
            formatted_number
                \o get_formatted_extension(phone_number, metadata.value, "National")))

format_out_of_country_calling_number(phone_number, calling_from) ==
    LET metadata_calling_from == MapGet(store.region_to_metadata_map, calling_from)
        country_calling_code == country_code(phone_number)
        national_significant_number == get_national_significant_number(phone_number)
    IN  IF ~metadata_calling_from.some THEN Ok(format(phone_number, "International"))
        ELSE IF ~has_valid_country_calling_code(country_calling_code)
        THEN Ok(national_significant_number)
        ELSE
    Let(format(phone_number, "National"), LAMBDA national :
        IF /\ country_calling_code = NANPA_COUNTRY_CODE
           /\ calling_from \in store.nanpa_regions
        THEN Ok(Itoa(country_calling_code) \o <<" ">> \o national)
        ELSE IF /\ country_calling_code # NANPA_COUNTRY_CODE
                /\ country_calling_code = metadata_calling_from.value.country_code
        THEN Ok(national)
        ELSE
    LET international_prefix ==
            InternationalPrefixText(metadata_calling_from.value.international_prefix)
        region_code == get_region_code_for_country_code(country_calling_code)
        metadata_for_region ==
            get_metadata_for_region_or_calling_code(country_calling_code, region_code)
    IN
    Let(IF metadata_calling_from.value.preferred_international_prefix.some
        THEN metadata_calling_from.value.preferred_international_prefix.value
        ELSE IF full_match(single_international_prefix, international_prefix)
        THEN international_prefix
        ELSE <<>>,
        LAMBDA international_prefix_for_formatting :
        IF ~metadata_for_region.some THEN Err("InvalidMetadataForValidRegionError")
        ELSE
    Let(format_nsn(national_significant_number, metadata_for_region.value,
                   "International")
            \o get_formatted_extension(phone_number, metadata_for_region.value,
                                       "International"),
        LAMBDA formatted_number :
        Ok(IF international_prefix_for_formatting # <<>>
           THEN international_prefix_for_formatting \o <<" ">>
                    \o Itoa(country_calling_code) \o <<" ">> \o formatted_number
           ELSE prefix_number_with_country_calling_code(country_calling_code,
                                                        "International",
                                                        formatted_number)))))

has_formatting_pattern_for_number(phone_number) ==
    LET country_calling_code == country_code(phone_number)
        region_code == get_region_code_for_country_code(country_calling_code)
        metadata == get_metadata_for_region_or_calling_code(country_calling_code,
                                                            region_code)
    IN  /\ metadata.some
        /\ choose_formatting_pattern_for_number(
               metadata.value.number_format,
               get_national_significant_number(phone_number)).some

raw_input_contains_national_prefix(raw, national_prefix, region_code) ==
    Let(normalize_digits_only(raw), LAMBDA normalized_national_number :
        IF ~StartsWith(normalized_national_number, national_prefix) THEN Ok(FALSE)
        ELSE
    Let(parse(Slice(normalized_national_number, Len(national_prefix),
                    Len(normalized_national_number)),
              region_code),
        LAMBDA number_without_national_prefix :
        IF number_without_national_prefix.ok
        THEN is_valid_number(number_without_national_prefix.value)
        ELSE IF number_without_national_prefix = Panicked THEN Panicked
        ELSE Ok(FALSE)))

\* What a call hands back: its value and the maps of the instance after it.
Left(value, maps) == [value |-> value, store |-> maps]

\* clone and clear_national_prefix_formatting_rule, with the rule of the
\* maps themselves cleared as well.
ClearedInPlace(region_code, format_rule) ==
    Left([format_rule EXCEPT !.national_prefix_formatting_rule = <<>>],
         [store EXCEPT
              !.region_to_metadata_map[region_code].number_format =
                  [k \in DOMAIN @ |->
                      IF @[k] = format_rule
                      THEN [format_rule EXCEPT !.national_prefix_formatting_rule = <<>>]
                      ELSE @[k]]])

\* let mut number_format = format_rule.clone();
\* number_format.clear_national_prefix_formatting_rule();
ClearedCopy(region_code, format_rule) ==
    Left([format_rule EXCEPT !.national_prefix_formatting_rule = <<>>], store)

\* The block of FROM_DEFAULT_COUNTRY and UNSPECIFIED.
FormatFromDefaultCountry(phone_number) ==
    Let(Left(Ok(format(phone_number, "National")), store), LAMBDA format_national :
    LET region_code == get_region_code_for_country_code(country_code(phone_number))
        national_prefix == get_ndd_prefix_for_region(region_code, TRUE)
        metadata == MapGet(store.region_to_metadata_map, region_code)
    IN  IF ~national_prefix.some \/ ~metadata.some THEN format_national
        ELSE
    Let(raw_input_contains_national_prefix(raw_input(phone_number),
                                           national_prefix.value, region_code),
        LAMBDA contains_prefix :
        IF ~contains_prefix.ok THEN Left(contains_prefix, store)
        ELSE IF contains_prefix.value THEN format_national
        ELSE
    Let(choose_formatting_pattern_for_number(
            metadata.value.number_format,
            get_national_significant_number(phone_number)),
        LAMBDA format_rule :
        IF ~format_rule.some THEN format_national
        ELSE
    LET candidate_national_prefix_rule ==
            format_rule.value.national_prefix_formatting_rule
        index_of_first_group == IndexOf(candidate_national_prefix_rule, <<"$", "1">>)
    IN  IF candidate_national_prefix_rule = <<>> THEN format_national
        ELSE IF index_of_first_group < 0 THEN format_national
        ELSE IF normalize_digits_only(Slice(candidate_national_prefix_rule, 0,
                                            index_of_first_group)) = <<>>
        THEN format_national
        ELSE
    Let(ClearedCopy(region_code, format_rule.value), LAMBDA cleared :
        Left(Ok(format_by_pattern(phone_number, "National", <<cleared.value>>)),
             cleared.store)))))

\* The rendering as it stands, whatever was written.
AlwaysFormatted(phone_number, formatted_number) == formatted_number

\* The last step of format_in_original_format: the raw input replaces a
\* rendering whose diallable characters differ from its own.
RawInputUnlessSameDiallable(phone_number, formatted_number) ==
    IF ~formatted_number.value.ok THEN formatted_number
    ELSE IF /\ formatted_number.value.value # <<>>
            /\ raw_input(phone_number) # <<>>
            /\ normalize_diallable_chars_only(formatted_number.value.value)
                   # normalize_diallable_chars_only(raw_input(phone_number))
    THEN Left(Ok(raw_input(phone_number)), formatted_number.store)
    ELSE formatted_number

format_in_original_format(phone_number, region_calling_from) ==
    IF phone_number.raw_input.some /\ ~has_formatting_pattern_for_number(phone_number)
    THEN Left(Ok(raw_input(phone_number)), store)
    ELSE IF ~phone_number.country_code_source.some
    THEN Left(Ok(format(phone_number, "National")), store)
    ELSE
    LET source == phone_number.country_code_source.value
    IN
    Let(format(phone_number, "International"), LAMBDA international :
    Let(CASE source = "FROM_NUMBER_WITH_PLUS_SIGN" -> Left(Ok(international), store)
          [] source = "FROM_NUMBER_WITH_IDD" ->
                Left(format_out_of_country_calling_number(phone_number,
                                                          region_calling_from),
                     store)
          [] source = "FROM_NUMBER_WITHOUT_PLUS_SIGN" ->
                Left(IF SliceInBounds(international, 1, Len(international))
                     THEN Ok(Slice(international, 1, Len(international)))
                     ELSE Panicked,
                     store)
          [] OTHER -> FormatFromDefaultCountry(phone_number),
        LAMBDA formatted_number :
        RawInputUnlessSameDiallable(phone_number, formatted_number)))

(***************************************************************************)
(* is_number_match and is_number_match_with_one_string                     *)
(***************************************************************************)
copy_core_fields_only(from_number) ==
    LET core == [PhoneNumber_new EXCEPT
                     !.country_code = Some(country_code(from_number)),
                     !.national_number = Some(national_number(from_number)),
                     !.extension = from_number.extension]
    IN  IF italian_leading_zero(from_number)
        THEN [core EXCEPT
                  !.italian_leading_zero = Some(TRUE),
                  !.number_of_leading_zeros =
                      Some(number_of_leading_zeros(from_number))]
        ELSE core

\* The suffix test made on the national significant numbers, zeros included.
is_nsn_suffix_of_the_other(first_number, second_number) ==
    \/ EndsWith(get_national_significant_number(first_number),
                get_national_significant_number(second_number))
    \/ EndsWith(get_national_significant_number(second_number),
                get_national_significant_number(first_number))

is_national_number_suffix_of_the_other(first_number, second_number) ==
    \/ EndsWith(national_number(first_number), national_number(second_number))
    \/ EndsWith(national_number(second_number), national_number(first_number))

is_number_match(first_number_in, second_number_in) ==
    LET first_number == copy_core_fields_only(first_number_in)
        second_number == copy_core_fields_only(second_number_in)
        first_number_country_code == country_code(first_number)
        second_number_country_code == country_code(second_number)
        first_with_code ==
            [first_number EXCEPT !.country_code = Some(second_number_country_code)]
    IN  IF /\ first_number_in.extension.some
           /\ second_number_in.extension.some
           /\ extension(first_number_in) # extension(second_number_in)
        THEN "NoMatch"
        ELSE IF first_number_country_code # 0 /\ second_number_country_code # 0
        THEN IF first_number = second_number THEN "ExactMatch"
             ELSE IF /\ first_number_country_code = second_number_country_code
                     /\ is_national_number_suffix_of_the_other(first_number,
                                                               second_number)
             THEN "ShortNsnMatch"
             ELSE "NoMatch"
        ELSE IF first_with_code = second_number THEN "NsnMatch"
        ELSE IF is_national_number_suffix_of_the_other(first_with_code, second_number)
        THEN "ShortNsnMatch"
        ELSE "NoMatch"

is_number_match_with_one_string(first_number, second_number) ==
    Let(parse(second_number, UnknownRegion), LAMBDA second_number_as_proto :
        IF second_number_as_proto.ok
        THEN Ok(is_number_match(first_number, second_number_as_proto.value))
        ELSE IF second_number_as_proto.error # "InvalidCountryCode"
        THEN second_number_as_proto
        ELSE
    Let(get_region_code_for_country_code(country_code(first_number)),
        LAMBDA first_number_region :
        IF first_number_region # UnknownRegion
        THEN Let(parse(second_number, first_number_region),
                 LAMBDA second_number_with_first_number_region :
                 IF ~second_number_with_first_number_region.ok
                 THEN second_number_with_first_number_region
                 ELSE Let(is_number_match(
                              first_number,
                              second_number_with_first_number_region.value),
                          LAMBDA match :
                          Ok(IF match = "ExactMatch" THEN "NsnMatch" ELSE match)))
        ELSE Let(parse_helper(second_number, UnknownRegion, FALSE, FALSE),
                 LAMBDA second_number_without_region :
                 IF ~second_number_without_region.ok
                 THEN second_number_without_region
                 ELSE Ok(is_number_match(first_number,
                                         second_number_without_region.value)))))

(***************************************************************************)
(* Sequences of calls on one instance: parse, format,                      *)
(* format_in_original_format, validation and matching, each recorded with  *)
(* what it returned.                                                       *)
(***************************************************************************)
MaxStoreCalls == 3

\* Written numbers with the default region they are parsed with: a national
\* number without and with its national prefix, a number with a plus sign,
\* one dialled with an international prefix and one that begins with the
\* calling code of the default region.
WrittenNumbers ==
    {[number |-> <<"1", "2", "3", "4">>, region |-> "GB"],
     [number |-> <<"0", "1", "2", "3", "4">>, region |-> "GB"],
     [number |-> <<"+", "1", " ", "2", "3", "4", "5">>, region |-> UnknownRegion],
     [number |-> <<"0", "1", "1", " ", "3", "9", " ", "0", "2", "3", "4">>,
      region |-> "US"],
     [number |-> <<"4", "4", " ", "1", "2", "3", "4">>, region |-> "GB"]}

NationalWritten == [number |-> <<"1", "2", "3", "4">>, region |-> "GB"]

\* The PhoneNumber parse_and_keep_raw_input makes of a written number.
NumberOf(written) == parse_and_keep_raw_input(written.number, written.region).value

InitStore ==
    /\ call = NoCall
    /\ ret = <<>>
    /\ store = new_for_metadata(metadata_collection)
    /\ CacheUnused

\* The call is made, and recorded with its result.
Record(made, result) ==
    /\ Len(ret) < MaxStoreCalls
    /\ call' = made
    /\ ret' = Append(ret, [call |-> made, result |-> result])
    /\ UNCHANGED cache_vars

StoreParse ==
    /\ Record([op |-> "parse", written |-> NationalWritten],
              parse(NationalWritten.number, NationalWritten.region))
    /\ UNCHANGED store

StoreParseAndKeepRawInput ==
    /\ Record([op |-> "parse_and_keep_raw_input", written |-> NationalWritten],
              parse_and_keep_raw_input(NationalWritten.number, NationalWritten.region))
    /\ UNCHANGED store

StoreFormat ==
    /\ Record([op |-> "format", written |-> NationalWritten, format |-> "National"],
              format(NumberOf(NationalWritten), "National"))
    /\ UNCHANGED store

StoreFormatInOriginalFormat ==
    \E written \in WrittenNumbers :
        Let(format_in_original_format(NumberOf(written), "US"), LAMBDA left :
            /\ Record([op |-> "format_in_original_format", written |-> written,
                       region_calling_from |-> "US"],
                      left.value)
            /\ store' = left.store)

StoreIsValidNumber ==
    /\ Record([op |-> "is_valid_number", written |-> NationalWritten],
              is_valid_number(NumberOf(NationalWritten)))
    /\ UNCHANGED store

StoreIsNumberMatch ==
    /\ Record([op |-> "is_number_match_with_one_string", written |-> NationalWritten,
               second_number |-> <<"0", "1", "2", "3", "4">>],
              is_number_match_with_one_string(NumberOf(NationalWritten),
                                              <<"0", "1", "2", "3", "4">>))
    /\ UNCHANGED store

NextStore ==
    \/ StoreParse
    \/ StoreParseAndKeepRawInput
    \/ StoreFormat
    \/ StoreFormatInOriginalFormat
    \/ StoreIsValidNumber
    \/ StoreIsNumberMatch

SpecStore == InitStore /\ [][NextStore]_vars

\* C10: no operation modifies the metadata store: after any sequence of
\* parse, format, format_in_original_format, validation and matching calls
\* the maps of the instance and every metadata record are what
\* new_for_metadata built, and a call repeated with the same arguments
\* returns the same result whatever calls were made in between.
C10_StoreIsReadOnly ==
    /\ store = new_for_metadata(metadata_collection)
    /\ \A i, j \in DOMAIN ret :
           ret[i].call = ret[j].call => ret[i].result = ret[j].result

\* format_in_original_format has formatted a number with its national
\* prefix rule cleared, format has then written the same number with the
\* rule, and format_in_original_format has been repeated.
C10_Witness ==
    /\ Len(ret) = 3
    /\ ret[1].call.op = "format_in_original_format"
    /\ ret[1].call.written = NationalWritten
    /\ ret[1].result = Ok(<<"1", "2", " ", "3", "4">>)
    /\ ret[2].call.op = "format"
    /\ ret[2].result = <<"(", "0", "1", "2", ")", " ", "3", "4">>
    /\ ret[3].call = ret[1].call

(***************************************************************************)
(* parse and parse_and_keep_raw_input applied to runs of digits: leading   *)
(* zeros and further digits, up to more than MAX_LENGTH_FOR_NSN of them,   *)
(* written alone or after a calling code.                                  *)
(***************************************************************************)
MaxDigits == 19
MaxZeros == 3

DigitPrefixes == {<<>>, <<"+", "1">>, <<"+", "3", "9">>, <<"+", "4", "4">>}

\* Digits after the leading zeros: none, or a digit that is not zero and
\* then sevens or zeros.
DigitTails ==
    {Repeat("7", b) : b \in 0..MaxDigits}
        \cup {<<"7", "0">>, <<"7", "0", "0", "7">>}

\* Zeros alone, and up to MaxZeros zeros before other digits.
DigitRuns ==
    {Repeat("0", a) : a \in 0..MaxDigits}
        \cup {run \in {Repeat("0", a) \o tail : a \in 0..MaxZeros, tail \in DigitTails} :
                 Len(run) <= MaxDigits}

DigitCalls ==
    [op : {"parse", "parse_and_keep_raw_input"},
     number_to_parse : {prefix \o run : prefix \in DigitPrefixes, run \in DigitRuns},
     default_region : DefaultRegions]

InitDigits ==
    /\ call \in DigitCalls
    /\ ret = Pending
    /\ store = new_for_metadata(metadata_collection)
    /\ CacheUnused

SpecDigits == InitDigits /\ [][NextParse]_vars

KeepsRawInput == call.op = "parse_and_keep_raw_input"

\* What parse_helper has of the call when it has the country calling code.
CallCountryCodeExtracted ==
    CountryCodeExtracted(call.number_to_parse, call.default_region, KeepsRawInput, TRUE)

\* What parse_helper has of the call when it tests its last length limits.
CallNormalized ==
    Normalized(CallCountryCodeExtracted, call.default_region, KeepsRawInput)

\* C11: every successfully parsed number has a national significant number
\* of MIN_LENGTH_FOR_NSN to MAX_LENGTH_FOR_NSN digits: parse returns
\* TooShortNsn when the digit string left after the country calling code, or
\* after the national prefix, has fewer than 2 digits, and TooLongNsn when
\* the string left after both has more than 17.
C11_NsnLengthLimits ==
    ParseReturned =>
        /\ ret.ok =>
               Len(get_national_significant_number(ret.value))
                   \in MIN_LENGTH_FOR_NSN..MAX_LENGTH_FOR_NSN
        /\ Let(CallCountryCodeExtracted, LAMBDA extracted :
               /\ extracted.ok /\ Len(extracted.value.number) < MIN_LENGTH_FOR_NSN
                      => ret = Err("TooShortNsn")
               /\ Let(Normalized(extracted, call.default_region, KeepsRawInput),
                      LAMBDA normalized :
                      normalized.ok =>
                          /\ Len(normalized.value.number) < MIN_LENGTH_FOR_NSN
                                 => ret = Err("TooShortNsn")
                          /\ Len(normalized.value.number) > MAX_LENGTH_FOR_NSN
                                 => ret = Err("TooLongNsn")))

\* A string of one digit more than the limit, left after the national
\* prefix of the default region was stripped, has been refused.
C11_Witness ==
    /\ ParseReturned
    /\ call.default_region = "GB"
    /\ ret = Err("TooLongNsn")
    /\ Len(call.number_to_parse) = MAX_LENGTH_FOR_NSN + 2
    /\ CallNormalized.ok
    /\ Len(CallNormalized.value.number) = MAX_LENGTH_FOR_NSN + 1

\* The string parse_helper works on: what build_national_number_for_parsing
\* makes of the text of the call.
WorkingString == build_national_number_for_parsing(call.number_to_parse)

StartsWithPlus(number) == matches_start(plus_chars_pattern, number)

\* C12: a viable input parsed with a default region without metadata fails
\* with InvalidCountryCode unless the working string starts with a plus
\* character; when it does, the region check passes whatever the default
\* region and a number that is returned has its calling code from the
\* number itself, after the plus sign or after an international prefix.
C12_RegionCheck ==
    ParseReturned =>
        Let(WorkingString, LAMBDA built :
            built.ok /\ is_viable_phone_number(built.value) =>
                IF StartsWithPlus(built.value)
                THEN /\ \A region \in DefaultRegions \cup {"XX"} :
                            check_region_for_parsing(built.value, region)
                     /\ ret.ok =>
                            /\ country_code(ret.value) # 0
                            /\ KeepsRawInput =>
                                   ret.value.country_code_source
                                       \in {Some("FROM_NUMBER_WITH_PLUS_SIGN"),
                                            Some("FROM_NUMBER_WITH_IDD")}
                ELSE ~get_metadata_for_region(call.default_region).some
                         => ret = Err("InvalidCountryCode"))

\* A tel: URI without a plus sign whose phone-context begins with one has
\* been parsed with the unknown region as the default.
C12_Witness ==
    /\ ParseReturned
    /\ call.default_region = UnknownRegion
    /\ ~StartsWithPlus(call.number_to_parse)
    /\ WorkingString.ok
    /\ StartsWithPlus(WorkingString.value)
    /\ ret.ok
    /\ country_code(ret.value) = 1

\* The length of the run of zeros a string begins with.
LeadingZeroRun(digits) ==
    CHOOSE k \in 0..Len(digits) :
        /\ \A i \in 1..k : digits[i] = "0"
        /\ k < Len(digits) => digits[k + 1] # "0"

\* C13: on every successful parse, if the final national digit string
\* begins with a run of k >= 1 zeros then italian_leading_zero is set and
\* number_of_leading_zeros, as its getter gives it, is k, or k - 1 when the
\* string is zeros only; if the string does not begin with a zero the flag
\* is left unset.
C13_LeadingZeros ==
    ParseReturned /\ ret.ok =>
        Let(CallNormalized.value.number, LAMBDA digits :
            IF LeadingZeroRun(digits) >= 1
            THEN /\ ret.value.italian_leading_zero = Some(TRUE)
                 /\ number_of_leading_zeros(ret.value) =
                        IF LeadingZeroRun(digits) = Len(digits)
                        THEN LeadingZeroRun(digits) - 1
                        ELSE LeadingZeroRun(digits)
            ELSE ret.value.italian_leading_zero = None)

\* A string of three zeros has been parsed: two of them are leading zeros.
C13_Witness ==
    /\ ParseReturned
    /\ ret.ok
    /\ CallNormalized.value.number = <<"0", "0", "0">>
    /\ ret.value.italian_leading_zero = Some(TRUE)
    /\ ret.value.number_of_leading_zeros = Some(2)

\* C14: leading zeros are never lost and never kept in national_number:
\* for every digit string of MIN_LENGTH_FOR_NSN to MAX_LENGTH_FOR_NSN digits
\* that reaches the end of parse_helper, zeros only or not, parse returns a
\* number whose national significant number is that string, and whose
\* national_number is written without leading zeros.
C14_NsnIsTheDigits ==
    ParseReturned =>
        Let(CallNormalized, LAMBDA normalized :
            /\ normalized.ok
            /\ Len(normalized.value.number)
                   \in MIN_LENGTH_FOR_NSN..MAX_LENGTH_FOR_NSN
            => /\ ret.ok
               /\ get_national_significant_number(ret.value) = normalized.value.number
               /\ \/ national_number(ret.value) = <<"0">>
                  \/ Head(national_number(ret.value)) # "0")

\* Two leading zeros before a number that ends in a zero have been parsed.
C14_Witness ==
    /\ ParseReturned
    /\ ret.ok
    /\ CallNormalized.value.number = <<"0", "0", "7", "0">>
    /\ national_number(ret.value) = <<"7", "0">>
    /\ get_national_significant_number(ret.value) = <<"0", "0", "7", "0">>

(***************************************************************************)
(* get_number_type_helper applied to hand-built metadata records: a        *)
(* general descriptor, up to two of the eight special types, a fixed-line  *)
(* and a mobile descriptor, the flag of equal patterns set as the metadata *)
(* build sets it.                                                          *)
(***************************************************************************)
TypeFields ==
    <<"premium_rate", "toll_free", "shared_cost", "voip", "personal_number",
      "pager", "uan", "voicemail">>

TypeNames ==
    <<"PremiumRate", "TollFree", "SharedCost", "VoIP", "PersonalNumber",
      "Pager", "UAN", "VoiceMail">>

TypeGeneralDescs ==
    {Desc("\\d{4}", <<4>>, <<>>), Desc("[1-9]\\d{3,4}", <<4, 5>>, <<>>)}

TypeSpecialDescs ==
    {NoDesc, Desc("3\\d{3}", <<4>>, <<>>), Desc("[03]\\d{3}", <<4>>, <<>>)}

TypeFixedLineDescs ==
    {NoDesc, Desc("0\\d{3}", <<4>>, <<>>), Desc("[03]\\d{3}", <<4>>, <<>>)}

TypeMobileDescs ==
    {NoDesc, Desc("3\\d{3}", <<4>>, <<>>), Desc("[03]\\d{3}", <<4>>, <<>>),
     Desc("7\\d{4}", <<5>>, <<>>)}

TypeMetadata ==
    {[PhoneMetadata_new EXCEPT
          !.general_desc = general,
          ![TypeFields[i]] = first, ![TypeFields[j]] = second,
          !.fixed_line = fixed_line, !.mobile = mobile,
          !.same_mobile_and_fixed_line_pattern =
              (fixed_line.national_number_pattern = mobile.national_number_pattern)] :
        general \in TypeGeneralDescs,
        i \in DOMAIN TypeFields, j \in DOMAIN TypeFields,
        first \in TypeSpecialDescs, second \in TypeSpecialDescs,
        fixed_line \in TypeFixedLineDescs, mobile \in TypeMobileDescs}

TypeNumbers ==
    {<<"0", "1", "2", "3">>, <<"3", "1", "2", "3">>, <<"7", "1", "2", "3">>,
     <<"7", "1", "2", "3", "4">>}

InitType ==
    /\ call \in [op : {"get_number_type_helper"}, national_number : TypeNumbers,
                 metadata : TypeMetadata]
    /\ ret = Pending
    /\ CacheUnused
    /\ StoreUnused

GetNumberTypeHelper ==
    /\ call.op = "get_number_type_helper"
    /\ ret = Pending
    /\ ret' = [type |-> get_number_type_helper(call.national_number, call.metadata)]
    /\ UNCHANGED <<call, cache_vars, store>>

NextType == GetNumberTypeHelper

SpecType == InitType /\ [][NextType]_vars

TypeReturned == call.op = "get_number_type_helper" /\ ret # Pending

\* The number of the call matches a descriptor of the metadata of the call.
TypeMatches(desc) == is_number_matching_desc(call.national_number, desc)

\* The special types whose descriptor the number matches, by priority.
MatchedSpecial == {i \in DOMAIN TypeFields : TypeMatches(call.metadata[TypeFields[i]])}

\* C15: the type is Unknown whenever the general descriptor does not
\* match; otherwise the first matching type in the priority premium-rate,
\* toll-free, shared-cost, voip, personal-number, pager, uan, voicemail;
\* otherwise FixedLineOrMobile when the fixed-line descriptor matches and
\* the mobile one is the same or matches too, FixedLine or Mobile when only
\* that one matches, and Unknown when nothing matches.
C15_TypePriority ==
    TypeReturned =>
        ret.type = IF ~TypeMatches(call.metadata.general_desc) THEN "Unknown"
              ELSE IF MatchedSpecial # {} THEN TypeNames[SetMin(MatchedSpecial)]
              ELSE IF /\ TypeMatches(call.metadata.fixed_line)
                      /\ TypeMatches(call.metadata.mobile)
              THEN "FixedLineOrMobile"
              ELSE IF TypeMatches(call.metadata.fixed_line) THEN "FixedLine"
              ELSE IF TypeMatches(call.metadata.mobile) THEN "Mobile"
              ELSE "Unknown"

\* A number that matches the toll-free and the voicemail descriptor, and
\* the fixed-line and mobile ones as well, is a toll-free number.
C15_Witness ==
    /\ TypeReturned
    /\ MatchedSpecial = {2, 8}
    /\ TypeMatches(call.metadata.fixed_line)
    /\ TypeMatches(call.metadata.mobile)
    /\ ret.type = "TollFree"

(***************************************************************************)
(* is_number_match applied to pairs of PhoneNumber values: calling code    *)
(* unset, 1 or 39; national number 2, 12 or 13; extension unset, empty or  *)
(* one digit; the leading-zero fields unset or set.  The first number      *)
(* carries a raw input and a country code source as well.                  *)
(***************************************************************************)
MatchCountryCodes == {None, Some(1), Some(39)}

MatchNationalNumbers == {Some(<<"2">>), Some(<<"1", "2">>), Some(<<"1", "3">>)}

MatchExtensions == {None, Some(<<>>), Some(<<"1">>), Some(<<"2">>)}

MatchLeadingZeros ==
    {[italian_leading_zero |-> None, number_of_leading_zeros |-> None],
     [italian_leading_zero |-> Some(TRUE), number_of_leading_zeros |-> None],
     [italian_leading_zero |-> Some(TRUE), number_of_leading_zeros |-> Some(2)],
     [italian_leading_zero |-> Some(FALSE), number_of_leading_zeros |-> Some(2)]}

MatchNumbers ==
    {[PhoneNumber_new EXCEPT
          !.country_code = code, !.national_number = national,
          !.extension = ext,
          !.italian_leading_zero = zeros.italian_leading_zero,
          !.number_of_leading_zeros = zeros.number_of_leading_zeros] :
        code \in MatchCountryCodes, national \in MatchNationalNumbers,
        ext \in MatchExtensions, zeros \in MatchLeadingZeros}

WithContext(phone_number) ==
    [phone_number EXCEPT
         !.raw_input = Some(<<"x">>),
         !.country_code_source = Some("FROM_DEFAULT_COUNTRY")]

InitMatch ==
    /\ call \in [op : {"is_number_match"},
                 first_number : {WithContext(n) : n \in MatchNumbers},
                 second_number : MatchNumbers]
    /\ ret = Pending
    /\ CacheUnused
    /\ StoreUnused

IsNumberMatch ==
    /\ call.op = "is_number_match"
    /\ ret = Pending
    /\ ret' = [match |-> is_number_match(call.first_number, call.second_number)]
    /\ UNCHANGED <<call, cache_vars, store>>

NextMatch == IsNumberMatch

SpecMatch == InitMatch /\ [][NextMatch]_vars

MatchReturned == call.op = "is_number_match" /\ ret # Pending

BothCodesNonZero ==
    country_code(call.first_number) # 0 /\ country_code(call.second_number) # 0

SameCode == country_code(call.first_number) = country_code(call.second_number)

\* The number of leading zeros a number is written with, 0 without the flag.
LeadingZeroState(phone_number) ==
    IF italian_leading_zero(phone_number)
    THEN number_of_leading_zeros(phone_number)
    ELSE 0

\* The outcome of the sentence, given the three tests it is made of.
MatchOutcome(extensions_differ, identity_equal, suffix) ==
    IF extensions_differ THEN "NoMatch"
    ELSE IF BothCodesNonZero
    THEN IF SameCode /\ identity_equal THEN "ExactMatch"
         ELSE IF SameCode /\ suffix THEN "ShortNsnMatch"
         ELSE "NoMatch"
    ELSE IF identity_equal THEN "NsnMatch"
    ELSE IF suffix THEN "ShortNsnMatch"
    ELSE "NoMatch"

\* C16 as stated: the extensions count when both are non-empty, the
\* identity fields are compared by value, and the suffix relation is one
\* of the national significant numbers.
C16_MatchByNsn ==
    MatchReturned =>
        ret.match =
            MatchOutcome(
                /\ extension(call.first_number) # <<>>
                /\ extension(call.second_number) # <<>>
                /\ extension(call.first_number) # extension(call.second_number),
                /\ national_number(call.first_number) = national_number(call.second_number)
                /\ extension(call.first_number) = extension(call.second_number)
                /\ LeadingZeroState(call.first_number) = LeadingZeroState(call.second_number),
                \/ EndsWith(get_national_significant_number(call.first_number),
                            get_national_significant_number(call.second_number))
                \/ EndsWith(get_national_significant_number(call.second_number),
                            get_national_significant_number(call.first_number)))

\* C16: is_number_match returns NoMatch if both numbers have the extension
\* field set and the two extensions differ; otherwise, with both calling
\* codes non-zero, ExactMatch if calling code, national number, extension
\* (an unset one differing from an empty one) and leading-zero state are
\* equal, ShortNsnMatch if the codes are equal and the decimal numeral of
\* one national number is a suffix of the other's, NoMatch in every other
\* case; with a calling code of zero, NsnMatch if the fields other than the
\* code are equal, ShortNsnMatch under the suffix relation, NoMatch
\* otherwise.
C16_MatchByNationalNumber ==
    MatchReturned =>
        ret.match =
            MatchOutcome(
                /\ call.first_number.extension.some
                /\ call.second_number.extension.some
                /\ extension(call.first_number) # extension(call.second_number),
                /\ national_number(call.first_number) = national_number(call.second_number)
                /\ call.first_number.extension = call.second_number.extension
                /\ LeadingZeroState(call.first_number) = LeadingZeroState(call.second_number),
                \/ EndsWith(national_number(call.first_number),
                            national_number(call.second_number))
                \/ EndsWith(national_number(call.second_number),
                            national_number(call.first_number)))

\* +39 02 and +39 12 are a short match: 2 is a suffix of 12, although 02
\* is not.
C16_Witness ==
    /\ MatchReturned
    /\ country_code(call.first_number) = 39
    /\ country_code(call.second_number) = 39
    /\ get_national_significant_number(call.first_number) = <<"0", "2">>
    /\ get_national_significant_number(call.second_number) = <<"1", "2">>
    /\ call.first_number.extension = None
    /\ call.second_number.extension = None
    /\ ret.match = "ShortNsnMatch"

(***************************************************************************)
(* format applied in the four styles to PhoneNumber values with calling    *)
(* codes of the collection, an unknown one and none, with and without      *)
(* extension, leading zeros and raw input.                                 *)
(***************************************************************************)
FormatStyles == {"E164", "International", "National", "RFC3966"}

FormatCountryCodes == {None, Some(1), Some(39), Some(44), Some(999)}

FormatNationalNumbers ==
    {None, Some(<<"0">>), Some(<<"2", "3", "4", "5">>),
     Some(<<"2", "0", "1", "2", "3", "4", "5", "6", "7", "8">>)}

FormatExtensions == {None, Some(<<"1", "2">>)}

FormatLeadingZeros ==
    {[italian_leading_zero |-> None, number_of_leading_zeros |-> None],
     [italian_leading_zero |-> Some(TRUE), number_of_leading_zeros |-> None],
     [italian_leading_zero |-> Some(TRUE), number_of_leading_zeros |-> Some(2)]}

FormatRawInputs ==
    {None, Some(<<>>), Some(<<"r", "a", "w">>), Some(<<"+", "0">>)}

FormatNumbers ==
    {[PhoneNumber_new EXCEPT
          !.country_code = code, !.national_number = national,
          !.extension = ext,
          !.italian_leading_zero = zeros.italian_leading_zero,
          !.number_of_leading_zeros = zeros.number_of_leading_zeros,
          !.raw_input = raw] :
        code \in FormatCountryCodes, national \in FormatNationalNumbers,
        ext \in FormatExtensions, zeros \in FormatLeadingZeros,
        raw \in FormatRawInputs}

InitFormat ==
    /\ store = new_for_metadata(metadata_collection)
    /\ call \in [op : {"format"}, phone_number : FormatNumbers,
                 number_format : FormatStyles]
    /\ ret = Pending
    /\ CacheUnused

Format ==
    /\ call.op = "format"
    /\ ret = Pending
    /\ ret' = [formatted |-> format(call.phone_number, call.number_format)]
    /\ UNCHANGED <<call, cache_vars, store>>

NextFormat == Format

SpecFormat == InitFormat /\ [][NextFormat]_vars

FormatReturned == call.op = "format" /\ ret # Pending

\* A number that format gives back as its raw input.
ZeroWithRawInput(phone_number) ==
    national_number(phone_number) = <<"0">> /\ raw_input(phone_number) # <<>>

\* The decimal numerals of the calling codes of FormatCountryCodes.
CodeNumeral(code) ==
    CASE code = 0 -> <<"0">>
      [] code = 1 -> <<"1">>
      [] code = 39 -> <<"3", "9">>
      [] code = 44 -> <<"4", "4">>
      [] code = 999 -> <<"9", "9", "9">>

\* '+', the calling code and the national significant number, nothing else.
PlainE164(phone_number) ==
    <<"+">> \o CodeNumeral(country_code(phone_number))
        \o [i \in 1..LeadingZeroState(phone_number) |-> "0"]
        \o national_number(phone_number)

\* C17: format(n, E164) is '+', the decimal calling code and the national
\* significant number, without separators, pattern formatting or extension,
\* for every number, one of an unknown calling code included; only a number
\* with national_number 0 and a non-empty raw_input is formatted as its
\* raw_input, verbatim and in every style, and no other E164 output lacks
\* the leading '+'.
C17_E164IsPlain ==
    FormatReturned =>
        /\ ZeroWithRawInput(call.phone_number)
               => ret.formatted = raw_input(call.phone_number)
        /\ (call.number_format = "E164" /\ ~ZeroWithRawInput(call.phone_number))
               => ret.formatted = PlainE164(call.phone_number)
        /\ (call.number_format = "E164" /\ ~ZeroWithRawInput(call.phone_number))
               => Head(ret.formatted) = "+"

\* A number of the unknown calling code 999, with two leading zeros and an
\* extension, in the E164 style.
C17_Witness ==
    /\ FormatReturned
    /\ call.number_format = "E164"
    /\ country_code(call.phone_number) = 999
    /\ call.phone_number.extension = Some(<<"1", "2">>)
    /\ LeadingZeroState(call.phone_number) = 2
    /\ ret.formatted = <<"+", "9", "9", "9", "0", "0", "2", "3", "4", "5">>

\* The raw input comes back in a style other than E164 too.
C17_RawInputWitness ==
    /\ FormatReturned
    /\ call.number_format = "National"
    /\ ZeroWithRawInput(call.phone_number)
    /\ ret.formatted = <<"r", "a", "w">>

(***************************************************************************)
(* is_possible_number_with_reason and truncate_too_long_number             *)
(***************************************************************************)
is_possible_number_for_type_with_reason(phone_number, phone_number_type) ==
    LET nsn == get_national_significant_number(phone_number)
        code == country_code(phone_number)
        metadata ==
            get_metadata_for_region_or_calling_code(
                code, get_region_code_for_country_code(code))
    IN  IF ~has_valid_country_calling_code(code) THEN "InvalidCountryCode"
        ELSE IF ~metadata.some THEN "InvalidCountryCode"
        ELSE test_number_length(nsn, metadata.value, phone_number_type)

is_possible_number_with_reason(phone_number) ==
    is_possible_number_for_type_with_reason(phone_number, "Unknown")

\* national_number / 10 on the decimal numeral of a u64.
\* No digit is removed.
SameNumeral(numeral) == numeral

U64Div10(numeral) ==
    IF Len(numeral) <= 1 THEN <<"0">> ELSE SubSeq(numeral, 1, Len(numeral) - 1)

\* One division by ten, committed without the test of validity.
FirstTruncation(number_copy, national) ==
    IF U64Div10(national) = <<"0">> THEN Ok(None) ELSE Ok(Some(U64Div10(national)))

\* The loop of truncate_too_long_number: Ok(Some(n)) when it breaks with
\* the national number n, Ok(None) when it returns Ok(false).
RECURSIVE TruncatedNational(_, _)
TruncatedNational(number_copy, national) ==
    LET next == U64Div10(national)
        copy == [number_copy EXCEPT !.national_number = Some(next)]
    IN  IF is_possible_number_with_reason(copy) = "TooShort" \/ next = <<"0">>
        THEN Ok(None)
        ELSE Let(is_valid_number(copy), LAMBDA valid :
                 IF ~valid.ok THEN valid
                 ELSE IF valid.value THEN Ok(Some(next))
                 ELSE TruncatedNational(copy, next))

\* The returned value and the number the caller's reference holds afterwards.
truncate_too_long_number(phone_number) ==
    Let(is_valid_number(phone_number), LAMBDA valid :
        IF ~valid.ok THEN [result |-> valid, phone_number |-> phone_number]
        ELSE IF valid.value THEN [result |-> Ok(TRUE), phone_number |-> phone_number]
        ELSE Let(TruncatedNational(phone_number, national_number(phone_number)),
                 LAMBDA truncated :
                 IF ~truncated.ok
                 THEN [result |-> truncated, phone_number |-> phone_number]
                 ELSE IF ~truncated.value.some
                 THEN [result |-> Ok(FALSE), phone_number |-> phone_number]
                 ELSE [result |-> Ok(TRUE),
                       phone_number |->
                           [phone_number EXCEPT
                                !.national_number = Some(truncated.value.value)]]))

(***************************************************************************)
(* truncate_too_long_number applied to numbers of four to seven digits of  *)
(* the calling codes of the collection, of an unknown one and of none.     *)
(***************************************************************************)
TruncateCountryCodes == {None, Some(1), Some(7), Some(39), Some(44), Some(999)}

TruncateNationalNumbers ==
    {None, Some(<<"0">>), Some(<<"1", "2", "3">>), Some(<<"1", "2", "3", "4">>),
     Some(<<"1", "2", "3", "4", "5">>), Some(<<"2", "3", "4", "5">>),
     Some(<<"2", "3", "4", "5", "6">>), Some(<<"2", "3", "4", "5", "6", "7">>),
     Some(<<"7", "1", "2", "3", "4">>), Some(<<"7", "1", "2", "3", "4", "5", "6">>),
     Some(<<"8", "0", "0", "0", "0", "0">>)}

TruncateLeadingZeros ==
    {[italian_leading_zero |-> None, number_of_leading_zeros |-> None],
     [italian_leading_zero |-> Some(TRUE), number_of_leading_zeros |-> None]}

TruncateNumbers ==
    {[PhoneNumber_new EXCEPT
          !.country_code = code, !.national_number = national,
          !.extension = ext,
          !.italian_leading_zero = zeros.italian_leading_zero,
          !.number_of_leading_zeros = zeros.number_of_leading_zeros,
          !.raw_input = raw] :
        code \in TruncateCountryCodes, national \in TruncateNationalNumbers,
        ext \in {None, Some(<<"1">>)}, zeros \in TruncateLeadingZeros,
        raw \in {None, Some(<<"x">>)}}

InitTruncate ==
    /\ store = new_for_metadata(metadata_collection)
    /\ call \in [op : {"truncate_too_long_number"}, phone_number : TruncateNumbers]
    /\ ret = Pending
    /\ CacheUnused

TruncateTooLongNumber ==
    /\ call.op = "truncate_too_long_number"
    /\ ret = Pending
    /\ ret' = truncate_too_long_number(call.phone_number)
    /\ UNCHANGED <<call, cache_vars, store>>

NextTruncate == TruncateTooLongNumber

SpecTruncate == InitTruncate /\ [][NextTruncate]_vars

TruncateReturned == call.op = "truncate_too_long_number" /\ ret # Pending

\* The number with one or more trailing digits of its national number
\* removed, one digit at least being left.
Shortened(phone_number) ==
    {[phone_number EXCEPT
          !.national_number = Some(SubSeq(national_number(phone_number), 1, k))] :
        k \in 1..(Len(national_number(phone_number)) - 1)}

\* C19: truncate_too_long_number returns true and leaves a valid number as
\* it is; it returns false and leaves the number as it is when no valid
\* number is found by dropping trailing digits; otherwise it returns true
\* with national_number replaced by the original with one or more trailing
\* digits removed, the result being valid and all other fields unchanged.
C19_Truncate ==
    TruncateReturned =>
        IF IsValid(call.phone_number)
        THEN ret.result = Ok(TRUE) /\ ret.phone_number = call.phone_number
        ELSE IF \A shorter \in Shortened(call.phone_number) : ~IsValid(shorter)
        THEN ret.result = Ok(FALSE) /\ ret.phone_number = call.phone_number
        ELSE /\ ret.result = Ok(TRUE)
             /\ ret.phone_number \in Shortened(call.phone_number)
             /\ IsValid(ret.phone_number)

\* +44 7123456 loses two digits and keeps its extension and raw input.
C19_Witness ==
    /\ TruncateReturned
    /\ country_code(call.phone_number) = 44
    /\ national_number(call.phone_number) = <<"7", "1", "2", "3", "4", "5", "6">>
    /\ call.phone_number.extension = Some(<<"1">>)
    /\ call.phone_number.raw_input = Some(<<"x">>)
    /\ ret.result = Ok(TRUE)
    /\ ret.phone_number =
           [call.phone_number EXCEPT
                !.national_number = Some(<<"7", "1", "2", "3", "4">>)]

\* +1 1234 has no valid truncation and stays as it is.
C19_NothingFoundWitness ==
    /\ TruncateReturned
    /\ country_code(call.phone_number) = 1
    /\ national_number(call.phone_number) = <<"1", "2", "3", "4">>
    /\ ret.result = Ok(FALSE)
    /\ ret.phone_number = call.phone_number

(***************************************************************************)
(* parse and parse_and_keep_raw_input applied to numbers that begin with   *)
(* the national prefix of US or GB, or with the carrier code of GB, before *)
(* three to five sevens, after nothing, a calling code with a plus sign or *)
(* the international prefix of US and a calling code.                      *)
(***************************************************************************)
PrefixedPrefixes ==
    {<<>>, <<"+", "1">>, <<"+", "4", "4">>, <<"0", "1", "1", "4", "4">>}

PrefixedHeads == {<<>>, <<"0">>, <<"1">>, <<"0", "8", "1">>}

PrefixedTails == {<<"7", "7", "7">>, <<"7", "7", "7", "7">>, <<"7", "7", "7", "7", "7">>}

PrefixedCalls ==
    [op : {"parse", "parse_and_keep_raw_input"},
     number_to_parse :
         {prefix \o head \o tail :
             prefix \in PrefixedPrefixes, head \in PrefixedHeads, tail \in PrefixedTails},
     default_region : DefaultRegions]

InitPrefixed ==
    /\ call \in PrefixedCalls
    /\ ret = Pending
    /\ store = new_for_metadata(metadata_collection)
    /\ CacheUnused

SpecPrefixed == InitPrefixed /\ [][NextParse]_vars

\* The metadata parse_helper strips the national prefix with: that of the
\* region of the extracted calling code, or that of the default region.
CallCountryMetadata ==
    Let(country_code(CallCountryCodeExtracted.value.phone_number), LAMBDA code :
        IF code # 0 /\ get_region_code_for_country_code(code) # call.default_region
        THEN get_metadata_for_region_or_calling_code(
                 code, get_region_code_for_country_code(code))
        ELSE get_metadata_for_region(call.default_region))

\* The working national number of the call before the stripping, what the
\* stripping makes of it, and the length classification of that.
CallStripping ==
    Let(CallCountryCodeExtracted.value.number, LAMBDA unstripped :
    Let(maybe_strip_national_prefix_and_carrier_code(CallCountryMetadata.value,
                                                     unstripped),
        LAMBDA stripped :
        [unstripped |-> unstripped, stripped |-> stripped.number,
         carrier_code |-> stripped.carrier_code,
         length |-> test_number_length_with_unknown_type(stripped.number,
                                                         CallCountryMetadata.value)]))

\* A call that returned a number and had metadata to strip a prefix with.
StrippingDone ==
    /\ ParseReturned
    /\ ret.ok
    /\ CallCountryCodeExtracted.ok
    /\ CallCountryMetadata.some

\* The returned number has the stripped digits, and the carrier code if raw
\* input is kept, exactly when the length is none of uncommitted.
CommittedUnless(uncommitted) ==
    StrippingDone =>
        Let(CallStripping, LAMBDA stripping :
            IF stripping.length \in uncommitted
            THEN /\ get_national_significant_number(ret.value) = stripping.unstripped
                 /\ ret.value.preferred_domestic_carrier_code = None
            ELSE /\ get_national_significant_number(ret.value) = stripping.stripped
                 /\ ret.value.preferred_domestic_carrier_code =
                        IF KeepsRawInput THEN stripping.carrier_code ELSE None)

\* C20 as stated: the output of the stripping replaces the working national
\* number exactly when its length classification is neither TooShort nor
\* InvalidLength.
C20_CommitUnlessTooShortOrInvalid == CommittedUnless({"TooShort", "InvalidLength"})

\* C20: the output of national-prefix and carrier stripping replaces the
\* working national number exactly when the stripped string's length
\* classification for the region (unknown type) is none of TooShort,
\* InvalidLength and IsPossibleLocalOnly; in the other cases the unstripped
\* string is kept and no carrier code is recorded.
C20_CommitUnlessTooShortInvalidOrLocal ==
    CommittedUnless({"TooShort", "InvalidLength", "IsPossibleLocalOnly"})

\* 1777 dialled in the US: without the national prefix 777 is possible
\* locally only, and the number stays 1777.
C20_Witness ==
    /\ StrippingDone
    /\ call.default_region = "US"
    /\ CallStripping.unstripped = <<"1", "7", "7", "7">>
    /\ CallStripping.stripped = <<"7", "7", "7">>
    /\ CallStripping.length = "IsPossibleLocalOnly"
    /\ get_national_significant_number(ret.value) = <<"1", "7", "7", "7">>

\* 081777 dialled in GB: 777 is too short, the carrier code 81 is dropped.
C20_CarrierDroppedWitness ==
    /\ StrippingDone
    /\ KeepsRawInput
    /\ CallStripping.carrier_code = Some(<<"8", "1">>)
    /\ CallStripping.length = "TooShort"
    /\ get_national_significant_number(ret.value) = <<"0", "8", "1", "7", "7", "7">>
    /\ ret.value.preferred_domestic_carrier_code = None

\* 0817777 dialled in GB: 7777 is possible, the carrier code 81 is kept.
C20_CarrierKeptWitness ==
    /\ StrippingDone
    /\ KeepsRawInput
    /\ CallStripping.length = "IsPossible"
    /\ get_national_significant_number(ret.value) = <<"7", "7", "7", "7">>
    /\ ret.value.preferred_domestic_carrier_code = Some(<<"8", "1">>)

\* The result of the other entry point on the input and region of the call.
OtherParse ==
    IF KeepsRawInput
    THEN parse(call.number_to_parse, call.default_region)
    ELSE parse_and_keep_raw_input(call.number_to_parse, call.default_region)

\* The fields both entry points fill in.
CoreFields(phone_number) ==
    <<phone_number.country_code, phone_number.national_number,
      phone_number.extension, phone_number.italian_leading_zero,
      phone_number.number_of_leading_zeros>>

\* The digits of the international prefix of the default region.
IddDigits ==
    CASE call.default_region = "US" -> <<"0", "1", "1">>
      [] call.default_region = "GB" -> <<"0", "0">>
      [] OTHER -> <<"+">>

InputStartsWith(prefix) ==
    /\ Len(call.number_to_parse) >= Len(prefix)
    /\ SubSeq(call.number_to_parse, 1, Len(prefix)) = prefix

\* Where the calling code of the call comes from: the plus sign, the
\* international prefix, the digits of the number, or the default region
\* when the number has given none.
SourceUsed ==
    IF InputStartsWith(<<"+">>) THEN "FROM_NUMBER_WITH_PLUS_SIGN"
    ELSE IF country_code(CountryCodeExtracted(call.number_to_parse, call.default_region,
                                              FALSE, TRUE).value.phone_number) = 0
    THEN "FROM_DEFAULT_COUNTRY"
    ELSE IF InputStartsWith(IddDigits) THEN "FROM_NUMBER_WITH_IDD"
    ELSE "FROM_NUMBER_WITHOUT_PLUS_SIGN"

\* The carrier code the stripping found, if its output was committed.
CarrierCommitted ==
    IF ~CallCountryMetadata.some THEN None
    ELSE Let(CallStripping, LAMBDA stripping :
             IF stripping.length \in {"TooShort", "InvalidLength", "IsPossibleLocalOnly"}
             THEN None
             ELSE stripping.carrier_code)

\* C18: the keep-raw-input flag affects only the three context fields:
\* parse leaves raw_input, country_code_source and
\* preferred_domestic_carrier_code unset; parse_and_keep_raw_input sets
\* raw_input to the input text, country_code_source to the source used and
\* the carrier code when one was stripped and committed; on the same input
\* and region both return the same calling code, national number, extension
\* and leading-zero fields, and fail with the same error.
C18_OnlyContextFields ==
    ParseReturned =>
        Let(OtherParse, LAMBDA other :
            /\ ret.ok = other.ok
            /\ ~ret.ok => ret = other
            /\ ret.ok => CoreFields(ret.value) = CoreFields(other.value)
            /\ (ret.ok /\ ~KeepsRawInput) =>
                   /\ ret.value.raw_input = None
                   /\ ret.value.country_code_source = None
                   /\ ret.value.preferred_domestic_carrier_code = None
            /\ (ret.ok /\ KeepsRawInput) =>
                   /\ ret.value.raw_input = Some(call.number_to_parse)
                   /\ ret.value.country_code_source = Some(SourceUsed)
                   /\ ret.value.preferred_domestic_carrier_code = CarrierCommitted)

\* 011440817777 dialled in the US with raw input kept: the calling code 44
\* comes from the international prefix and the carrier code 81 is recorded.
C18_Witness ==
    /\ ParseReturned
    /\ KeepsRawInput
    /\ ret.ok
    /\ call.default_region = "US"
    /\ ret.value.raw_input = Some(call.number_to_parse)
    /\ ret.value.country_code_source = Some("FROM_NUMBER_WITH_IDD")
    /\ ret.value.preferred_domestic_carrier_code = Some(<<"8", "1">>)
    /\ CoreFields(ret.value) = CoreFields(OtherParse.value)

\* The same input through parse: the three context fields stay unset.
C18_PlainWitness ==
    /\ ParseReturned
    /\ ~KeepsRawInput
    /\ ret.ok
    /\ OtherParse.value.preferred_domestic_carrier_code = Some(<<"8", "1">>)
    /\ ret.value.raw_input = None
    /\ ret.value.country_code_source = None
    /\ ret.value.preferred_domestic_carrier_code = None

\* A calling code read from the digits of the number without a plus sign.
C18_WithoutPlusWitness ==
    /\ ParseReturned
    /\ KeepsRawInput
    /\ ret.ok
    /\ ret.value.country_code_source = Some("FROM_NUMBER_WITHOUT_PLUS_SIGN")

\* Both entry points fail with the same error.
C18_ErrorWitness ==
    /\ ParseReturned
    /\ ~ret.ok
    /\ ret = OtherParse

(***************************************************************************)
(* parse and parse_and_keep_raw_input applied to numbers whose calling     *)
(* code is not found at the first attempt: an unknown code or an           *)
(* international prefix after the plus sign, a zero after it.              *)
(***************************************************************************)
RetryPrefixes ==
    {<<>>, <<"+">>, <<"+", "1">>, <<"+", "9", "9", "9">>,
     <<"+", "0", "1", "1", "4", "4">>, <<"+", "0", "1", "1", "9", "9", "9">>,
     <<"0", "1", "1", "9", "9", "9">>, <<"+", "+", "9", "9", "9">>}

RetryHeads == {<<>>, <<"0">>}

RetryTails == {<<"7", "7", "7", "7">>, <<"7", "7", "7", "7", "7">>}

RetryCalls ==
    [op : {"parse", "parse_and_keep_raw_input"},
     number_to_parse :
         {prefix \o head \o tail :
             prefix \in RetryPrefixes, head \in RetryHeads, tail \in RetryTails},
     default_region : DefaultRegions]

InitRetry ==
    /\ call \in RetryCalls
    /\ ret = Pending
    /\ store = new_for_metadata(metadata_collection)
    /\ CacheUnused

SpecRetry == InitRetry /\ [][NextParse]_vars

\* The call reaches the resolution of the country calling code.
ResolutionReached ==
    /\ WorkingString.ok
    /\ is_viable_phone_number(WorkingString.value)
    /\ check_region_for_parsing(WorkingString.value, call.default_region)

\* The working string of the call without its extension.
ExtensionStripped == maybe_strip_extension(WorkingString.value).number

\* A string without the plus-class characters it starts with.
RECURSIVE PlusRemoved(_)
PlusRemoved(number) ==
    IF number # <<>> /\ Head(number) \in PLUS_CHARS THEN PlusRemoved(Tail(number))
    ELSE number

\* The first resolution of the call.
FirstAttempt ==
    maybe_extract_country_code(get_metadata_for_region(call.default_region),
                               KeepsRawInput, ExtensionStripped, PhoneNumber_new)

\* The condition of the second resolution.
RetryDue ==
    /\ FirstAttempt.result = Err("InvalidCountryCode")
    /\ ExtensionStripped # <<>>
    /\ Head(ExtensionStripped) \in PLUS_CHARS

\* The second resolution, on the string with the plus removed.
SecondAttempt ==
    maybe_extract_country_code(get_metadata_for_region(call.default_region),
                               KeepsRawInput, PlusRemoved(ExtensionStripped),
                               FirstAttempt.phone_number)

\* C21: the country code is resolved at most twice per parse call: a second
\* attempt is made only if the first failed with InvalidCountryCode and the
\* extension-stripped working string starts with a plus-class character; it
\* runs on that string with the plus removed, and its outcome is final: its
\* error, or its resolving no calling code, ends the parse with an error.
C21_SingleRetry ==
    (ParseReturned /\ ResolutionReached) =>
        IF ~RetryDue
        THEN /\ ~FirstAttempt.result.ok => ret = FirstAttempt.result
             /\ CallCountryCodeExtracted.ok =>
                    /\ FirstAttempt.result.ok
                    /\ CallCountryCodeExtracted.value.number = FirstAttempt.result.value
        ELSE Let(SecondAttempt, LAMBDA second :
                 IF ~second.result.ok THEN ret = second.result
                 ELSE IF country_code(second.phone_number) = 0
                 THEN ret = Err("InvalidCountryCode")
                 ELSE /\ CallCountryCodeExtracted.ok
                      /\ CallCountryCodeExtracted.value.number = second.result.value
                      /\ ret.ok => country_code(ret.value)
                                       = country_code(second.phone_number))

\* +011447777 dialled in the US: no calling code starts with 0, and the
\* second attempt reads the international prefix and the calling code 44.
C21_Witness ==
    /\ ParseReturned
    /\ ResolutionReached
    /\ RetryDue
    /\ call.default_region = "US"
    /\ PlusRemoved(ExtensionStripped)
           = <<"0", "1", "1", "4", "4", "7", "7", "7", "7">>
    /\ ret.ok
    /\ country_code(ret.value) = 44

\* +9997777: the second attempt resolves no calling code, and the parse
\* ends with InvalidCountryCode although the default region has metadata.
C21_NoCodeWitness ==
    /\ ParseReturned
    /\ ResolutionReached
    /\ RetryDue
    /\ call.default_region = "US"
    /\ SecondAttempt.result.ok
    /\ country_code(SecondAttempt.phone_number) = 0
    /\ ret = Err("InvalidCountryCode")

\* +0119997777 dialled in the US: the second attempt fails as well.
C21_SecondErrorWitness ==
    /\ ParseReturned
    /\ ResolutionReached
    /\ RetryDue
    /\ SecondAttempt.result = Err("InvalidCountryCode")
    /\ ret = Err("InvalidCountryCode")

(***************************************************************************)
(* parse and parse_and_keep_raw_input applied to inputs that fail one or   *)
(* several of the checks of parse_helper: no start character, too few      *)
(* digits, an invalid phone-context, no region, an unknown calling code,   *)
(* too few or too many digits after the calling code.                      *)
(***************************************************************************)
StageNumbers ==
    {<<>>, <<"x">>, <<"+">>, <<"1">>, <<"0", "1", "1", "1", "2">>, <<"+", "4", "4", "7">>,
     <<"7", "7", "7", "7">>, <<"+", "1", "7", "7", "7", "7">>,
     <<"+", "9", "9", "9", "7", "7", "7", "7">>,
     <<"0", "1", "1", "9", "9", "9", "7", "7", "7", "7">>,
     <<"+", "1">> \o Repeat("7", MAX_LENGTH_FOR_NSN + 1),
     <<"+", "9", "9", "9">> \o Repeat("7", MAX_LENGTH_FOR_NSN + 1)}

StageParameters ==
    {<<>>,
     <<";", "p", "h", "o", "n", "e", "-", "c", "o", "n", "t", "e", "x", "t", "=">>,
     <<";", "p", "h", "o", "n", "e", "-", "c", "o", "n", "t", "e", "x", "t", "=",
       "+", "9", "9", "9">>}

StageCalls ==
    [op : {"parse", "parse_and_keep_raw_input"},
     number_to_parse :
         {number \o parameter : number \in StageNumbers, parameter \in StageParameters},
     default_region : DefaultRegions]

InitStages ==
    /\ call \in StageCalls
    /\ ret = Pending
    /\ store = new_for_metadata(metadata_collection)
    /\ CacheUnused

SpecStages == InitStages /\ [][NextParse]_vars

\* The errors of the five stages.
ConstructionErrors ==
    {Err("NotANumber(InvalidPhoneContext)"),
     Err("NotANumber(FailedToExtractNumber(NoValidStartCharacter))"),
     Err("NotANumber(FailedToExtractNumber(NotANumber))")}

ViabilityError == Err("NotANumber(NotMatchedValidNumberPattern)")

ResolutionErrors == {Err("InvalidCountryCode"), Err("TooShortAfterIdd")}

LengthErrors == {Err("TooShortNsn"), Err("TooLongNsn")}

\* C22: parse errors come in stage order: the error returned is that of
\* the earliest failing stage, the construction of the working string, then
\* the viability, then the region, then the resolution of the country code,
\* then the length bounds, and no later stage runs after a failure.
C22_StageOrder ==
    ParseReturned =>
        Let(WorkingString, LAMBDA built :
            IF ~built.ok THEN ret = built /\ ret \in ConstructionErrors
            ELSE IF ~is_viable_phone_number(built.value) THEN ret = ViabilityError
            ELSE IF ~check_region_for_parsing(built.value, call.default_region)
            THEN ret = Err("InvalidCountryCode")
            ELSE IF ~CallCountryCodeExtracted.ok
            THEN ret = CallCountryCodeExtracted /\ ret \in ResolutionErrors
            ELSE ret.ok \/ ret \in LengthErrors)

\* A single digit without a region: not viable, and of no region either;
\* the error is that of the viability.
C22_Witness ==
    /\ ParseReturned
    /\ call.default_region = UnknownRegion
    /\ WorkingString = Ok(<<"1">>)
    /\ ~is_viable_phone_number(WorkingString.value)
    /\ ~check_region_for_parsing(WorkingString.value, call.default_region)
    /\ ret = ViabilityError

\* An empty phone-context after a single digit, without a region: the
\* error is that of the construction.
C22_ConstructionWitness ==
    /\ ParseReturned
    /\ call.default_region = UnknownRegion
    /\ ~is_viable_phone_number(call.number_to_parse)
    /\ ~check_region_for_parsing(call.number_to_parse, call.default_region)
    /\ ret = Err("NotANumber(InvalidPhoneContext)")

\* An unknown calling code before more than MAX_LENGTH_FOR_NSN digits: the
\* error is that of the resolution.
C22_ResolutionWitness ==
    /\ ParseReturned
    /\ WorkingString.ok
    /\ Len(WorkingString.value) > MAX_LENGTH_FOR_NSN + 3
    /\ ret = Err("InvalidCountryCode")

\* Each of the length errors is returned.
C22_TooLongWitness == ParseReturned /\ ret = Err("TooLongNsn")

(***************************************************************************)
(* extract_country_code applied to strings of digits of up to              *)
(* MaxExtractLen characters, with the metadata store of the collection:    *)
(* calling codes 1, 7, 39, 44 and 800.                                     *)
(***************************************************************************)
MaxExtractLen == 4

ExtractDigits == {"0", "1", "3", "4", "8", "9"}

InitExtract ==
    /\ call \in [op : {"extract_country_code"},
                 national_number : StringsUpTo(ExtractDigits, MaxExtractLen)]
    /\ ret = Pending
    /\ store = new_for_metadata(metadata_collection)
    /\ CacheUnused

ExtractCountryCode ==
    /\ call.op = "extract_country_code"
    /\ ret = Pending
    /\ ret' = [extracted |-> extract_country_code(call.national_number)]
    /\ UNCHANGED <<call, cache_vars, store>>

NextExtract == ExtractCountryCode

SpecExtract == InitExtract /\ [][NextExtract]_vars

ExtractReturned == call.op = "extract_country_code" /\ ret # Pending

\* The lengths of the prefixes of the number that are known calling codes.
KnownPrefixLengths ==
    {i \in 1..MAX_LENGTH_COUNTRY_CODE :
        /\ i <= Len(call.national_number)
        /\ has_valid_country_calling_code(
               DecimalValue(SubSeq(call.national_number, 1, i), 0))}

\* What the sentence of C23 gives for the number of the call.
FirstKnownPrefix ==
    IF call.national_number = <<>> \/ Head(call.national_number) = "0" THEN None
    ELSE IF KnownPrefixLengths = {} THEN None
    ELSE LET i == SetMin(KnownPrefixLengths)
         IN  Some([number |-> SubSeq(call.national_number, i + 1,
                                     Len(call.national_number)),
                   code |-> DecimalValue(SubSeq(call.national_number, 1, i), 0)])

\* C23: extract_country_code returns no match for an empty string or one
\* starting with '0'; otherwise it returns the first of the prefixes of
\* length 1, 2 and 3 that is a known calling code, with the remaining
\* digits, and no match if none of them is one.
C23_FirstKnownPrefix == ExtractReturned => ret.extracted = FirstKnownPrefix

\* The same for numbers of at least three characters.
FirstKnownPrefixOfThree ==
    (ExtractReturned /\ Len(call.national_number) >= MAX_LENGTH_COUNTRY_CODE)
        => ret.extracted = FirstKnownPrefix

\* 99 has no known prefix, and its first three characters cannot be taken.
C23_PanicOnShortNumber ==
    /\ ExtractReturned
    /\ call.national_number = <<"9", "9">>
    /\ ret.extracted = Panicked

\* 800 is known, 8 and 80 are not: the longest prefix is reached.
ExtractedThreeDigitCode ==
    /\ ExtractReturned
    /\ call.national_number = <<"8", "0", "0", "1">>
    /\ ret.extracted = Some([number |-> <<"1">>, code |-> 800])

(***************************************************************************)
(* maybe_extract_country_code applied to a new PhoneNumber and strings of  *)
(* up to MaxOwnCodeLen digits, with or without a plus sign, with the       *)
(* metadata of US, GB, RU or of no region.                                 *)
(***************************************************************************)
MaxOwnCodeLen == 5

OwnCodeDigits == {"1", "3", "4", "7"}

OwnCodeRegions == {"US", "GB", "RU", UnknownRegion}

InitOwnCode ==
    /\ call \in [op : {"maybe_extract_country_code"},
                 default_region : OwnCodeRegions,
                 keep_raw_input : BOOLEAN,
                 national_number :
                     {plus \o digits :
                         plus \in {<<>>, <<"+">>},
                         digits \in StringsUpTo(OwnCodeDigits, MaxOwnCodeLen)}]
    /\ ret = Pending
    /\ store = new_for_metadata(metadata_collection)
    /\ CacheUnused

MaybeExtractCountryCode ==
    /\ call.op = "maybe_extract_country_code"
    /\ ret = Pending
    /\ ret' = maybe_extract_country_code(get_metadata_for_region(call.default_region),
                                         call.keep_raw_input, call.national_number,
                                         PhoneNumber_new)
    /\ UNCHANGED <<call, cache_vars, store>>

NextOwnCode == MaybeExtractCountryCode

SpecOwnCode == InitOwnCode /\ [][NextOwnCode]_vars

\* The call returned, its number had no plus sign (and, being without a
\* zero, no international prefix), and the default region has metadata.
OwnCodeCase ==
    /\ call.op = "maybe_extract_country_code"
    /\ ret # Pending
    /\ ~StartsWith(call.national_number, <<"+">>)
    /\ get_metadata_for_region(call.default_region).some

DefaultMetadata == get_metadata_for_region(call.default_region).value

OwnCode == Itoa(DefaultMetadata.country_code)

WithoutOwnCode ==
    SubSeq(call.national_number, Len(OwnCode) + 1, Len(call.national_number))

MatchesGeneral(number) ==
    full_match(RegexOf(DefaultMetadata.general_desc.national_number_pattern), number)

\* The two conditions of the sentence for the number of the call.
FailsAndStrippedMatches ==
    ~MatchesGeneral(call.national_number) /\ MatchesGeneral(WithoutOwnCode)

UnstrippedTooLong ==
    test_number_length_with_unknown_type(call.national_number, DefaultMetadata)
        = "TooLong"

OwnCodeToStrip ==
    /\ StartsWith(call.national_number, OwnCode)
    /\ FailsAndStrippedMatches \/ UnstrippedTooLong

\* C24: without a plus sign or an international prefix, and with metadata
\* for the default region, the calling code of the region is stripped from
\* the front of the number (country_code set to it, the source
\* FROM_NUMBER_WITHOUT_PLUS_SIGN) only if the number starts with the code
\* and either the number fails the general descriptor while the stripped
\* one matches it, or the length of the number is TooLong; in every other
\* case the number is returned unchanged with country_code 0.
C24_OwnCodeStripped ==
    OwnCodeCase =>
        IF OwnCodeToStrip
        THEN /\ ret.result = Ok(WithoutOwnCode)
             /\ ret.phone_number.country_code = Some(DefaultMetadata.country_code)
             /\ call.keep_raw_input =>
                    ret.phone_number.country_code_source
                        = Some("FROM_NUMBER_WITHOUT_PLUS_SIGN")
        ELSE /\ ret.result = Ok(call.national_number)
             /\ ret.phone_number.country_code = Some(0)
             /\ call.keep_raw_input =>
                    ret.phone_number.country_code_source = Some("FROM_DEFAULT_COUNTRY")

\* 11777 in the US: 1777 does not match either, but 11777 is too long, and
\* the calling code is stripped.
C24_Witness ==
    /\ OwnCodeCase
    /\ call.default_region = "US"
    /\ call.national_number = <<"1", "1", "7", "7", "7">>
    /\ ~FailsAndStrippedMatches
    /\ UnstrippedTooLong
    /\ ret.result = Ok(<<"1", "7", "7", "7">>)
    /\ ret.phone_number.country_code = Some(1)

\* 73777 in RU: it fails the general descriptor, 3777 matches it.
C24_MatchingWitness ==
    /\ OwnCodeCase
    /\ call.default_region = "RU"
    /\ FailsAndStrippedMatches
    /\ ~UnstrippedTooLong
    /\ ret.result = Ok(<<"3", "7", "7", "7">>)
    /\ ret.phone_number.country_code = Some(7)

\* 4477 in GB: it starts with 44 and matches as it is; it stays.
C24_UnchangedWitness ==
    /\ OwnCodeCase
    /\ call.default_region = "GB"
    /\ call.national_number = <<"4", "4", "7", "7">>
    /\ ret.result = Ok(<<"4", "4", "7", "7">>)
    /\ ret.phone_number.country_code = Some(0)

(***************************************************************************)
(* format applied with a store of two regions that share the calling code  *)
(* 39 and tell their numbers apart by leading digits, each with a format   *)
(* of its own, and a region alone with the calling code 1.                 *)
(***************************************************************************)
SharedIT ==
    [PhoneMetadata_new EXCEPT
        !.id = "IT", !.country_code = 39, !.international_prefix = "00",
        !.main_country_for_code = TRUE, !.leading_digits = Some("3"),
        !.general_desc = Desc("[03]\\d{3}", <<4>>, <<>>),
        !.mobile = Desc("3\\d{3}", <<4>>, <<>>),
        !.number_format = <<NumberFormat("(\\d{2})(\\d{2})",
                                         <<"$", "1", " ", "$", "2">>, <<>>)>>]

SharedVA ==
    [PhoneMetadata_new EXCEPT
        !.id = "VA", !.country_code = 39, !.international_prefix = "00",
        !.leading_digits = Some("0"),
        !.general_desc = Desc("[03]\\d{3}", <<4>>, <<>>),
        !.fixed_line = Desc("0\\d{3}", <<4>>, <<>>),
        !.number_format = <<NumberFormat("(\\d)(\\d{3})",
                                         <<"$", "1", " ", "$", "2">>, <<>>)>>]

SharedCollection == <<SharedVA, SharedIT, US>>

SharedStyles == {"International", "National", "RFC3966"}

SharedNumbers ==
    {[PhoneNumber_new EXCEPT
          !.country_code = Some(code), !.national_number = Some(national),
          !.extension = ext, !.italian_leading_zero = zero] :
        code \in {1, 39, 999},
        national \in {<<"1", "2", "3">>, <<"3", "1", "2", "3">>,
                      <<"7", "1", "2", "3">>, <<"2", "3", "4", "5">>},
        ext \in {None, Some(<<"1", "2">>)},
        zero \in {None, Some(TRUE)}}

InitShared ==
    /\ store = new_for_metadata(SharedCollection)
    /\ call \in [op : {"format"}, phone_number : SharedNumbers,
                 number_format : SharedStyles]
    /\ ret = Pending
    /\ CacheUnused

SpecShared == InitShared /\ [][NextFormat]_vars

\* A format call returned for a number of the shared calling code.
SharedCase ==
    /\ FormatReturned
    /\ get_region_codes_for_country_calling_code(country_code(call.phone_number)).some
    /\ Len(get_region_codes_for_country_calling_code(
               country_code(call.phone_number)).value) > 1

\* The number of the call rendered with the metadata of a region.
RenderedWith(region_code) ==
    LET metadata == get_metadata_for_region(region_code).value
    IN  prefix_number_with_country_calling_code(
            country_code(call.phone_number), call.number_format,
            format_nsn(get_national_significant_number(call.phone_number),
                       metadata, call.number_format)
                \o get_formatted_extension(call.phone_number, metadata,
                                           call.number_format))

\* The regions of the calling code of the call whose leading digits the
\* national significant number starts with, by their place in the list.
MatchingRegions ==
    LET region_codes ==
            get_region_codes_for_country_calling_code(
                country_code(call.phone_number)).value
    IN  {i \in DOMAIN region_codes :
            LET metadata == get_metadata_for_region(region_codes[i]).value
            IN  /\ metadata.leading_digits.some
                /\ matches_start(RegexOf(metadata.leading_digits.value),
                                 get_national_significant_number(call.phone_number))}

\* C25 as stated: a number of a shared calling code is formatted with the
\* metadata of the first region of the list whose leading_digits match the
\* start of the national significant number, and without a pattern when no
\* region matches.
C25_FormatByNumberRegion ==
    SharedCase =>
        ret.formatted =
            IF MatchingRegions = {}
            THEN get_national_significant_number(call.phone_number)
            ELSE RenderedWith(
                     get_region_codes_for_country_calling_code(
                         country_code(call.phone_number)).value[SetMin(MatchingRegions)])

\* The region of the collection flagged as the main one of a calling code.
MainRegion(code) ==
    LET i == CHOOSE i \in DOMAIN SharedCollection :
                 /\ SharedCollection[i].country_code = code
                 /\ SharedCollection[i].main_country_for_code
    IN  SharedCollection[i].id

\* C25: a number of a calling code shared by several regions is formatted
\* in a style other than E164 with the metadata of the main region of the
\* calling code, the first of its region list, whatever region the number
\* itself resolves to.
C25_FormatByMainRegion ==
    SharedCase => ret.formatted = RenderedWith(MainRegion(country_code(call.phone_number)))

\* +39 0123 starts with the leading digit of VA and is formatted as a
\* number of IT, the main region: 01 23 and not 0 123.
C25_Witness ==
    /\ SharedCase
    /\ call.number_format = "National"
    /\ call.phone_number.extension = None
    /\ get_national_significant_number(call.phone_number) = <<"0", "1", "2", "3">>
    /\ MatchingRegions # {}
    /\ get_region_code_for_number(call.phone_number) = Ok("VA")
    /\ ret.formatted = <<"0", "1", " ", "2", "3">>

\* +39 7123 starts with no leading digit of the two regions and is
\* formatted as a number of IT all the same.
C25_NoRegionWitness ==
    /\ SharedCase
    /\ call.number_format = "International"
    /\ call.phone_number.extension = None
    /\ MatchingRegions = {}
    /\ ret.formatted = <<"+", "3", "9", " ", "7", "1", " ", "2", "3">>

\* ---------------------------------------------------------------------
\* format_in_original_format on numbers that carry what was written.

OriginalCountryCodes == {Some(1), Some(44)}

OriginalNationalNumbers ==
    {Some(<<"0">>), Some(<<"2", "3", "4", "5">>), Some(<<"1", "2", "3", "4">>)}

\* What was written: the national number as the region writes it, with other
\* punctuation, with the calling code and a plus sign, with the calling code
\* alone, another number, and letters only.
OriginalRawInputs ==
    {Some(<<"2", " ", "3", "4", "5">>),
     Some(<<"(", "2", "3", ")", "4", "5">>),
     Some(<<"+", "1", " ", "2", " ", "3", "4", "5">>),
     Some(<<"1", " ", "2", " ", "3", "4", "5">>),
     Some(<<"0", "1", "2", "3", "4">>),
     Some(<<"+", "4", "4", " ", "1", "2", " ", "3", "4">>),
     Some(<<"9", "9", "9">>),
     Some(<<"r", "a", "w">>)}

OriginalSources ==
    {None, Some("FROM_NUMBER_WITH_PLUS_SIGN"), Some("FROM_NUMBER_WITH_IDD"),
     Some("FROM_NUMBER_WITHOUT_PLUS_SIGN"), Some("FROM_DEFAULT_COUNTRY")}

OriginalNumbers ==
    {[PhoneNumber_new EXCEPT
          !.country_code = code, !.national_number = national,
          !.raw_input = raw, !.country_code_source = source] :
        code \in OriginalCountryCodes, national \in OriginalNationalNumbers,
        raw \in OriginalRawInputs, source \in OriginalSources}

InitOriginal ==
    /\ store = new_for_metadata(metadata_collection)
    /\ call \in [op : {"format_in_original_format"},
                 phone_number : OriginalNumbers,
                 region_calling_from : {"US", "GB"}]
    /\ ret = Pending
    /\ CacheUnused

FormatInOriginalFormat ==
    /\ call.op = "format_in_original_format"
    /\ ret = Pending
    /\ Let(format_in_original_format(call.phone_number, call.region_calling_from),
           LAMBDA left :
               /\ ret' = [formatted |-> left.value]
               /\ store' = left.store)
    /\ UNCHANGED <<call, cache_vars>>

NextOriginal == FormatInOriginalFormat

SpecOriginal == InitOriginal /\ [][NextOriginal]_vars

OriginalReturned == call.op = "format_in_original_format" /\ ret # Pending

\* The result is the raw input itself, or a rendering with the diallable
\* characters of the raw input.
KeepsDiallable ==
    /\ ret.formatted.ok
    /\ \/ ret.formatted.value = raw_input(call.phone_number)
       \/ normalize_diallable_chars_only(ret.formatted.value)
              = normalize_diallable_chars_only(raw_input(call.phone_number))

C26_RawInputWitness ==
    /\ OriginalReturned
    /\ call.phone_number.country_code_source.some
    /\ has_formatting_pattern_for_number(call.phone_number)
    /\ ret.formatted.ok
    /\ ret.formatted.value = raw_input(call.phone_number)
    /\ normalize_diallable_chars_only(format(call.phone_number, "International"))
           # normalize_diallable_chars_only(raw_input(call.phone_number))

\* Without a country_code_source the national rendering was returned although
\* its diallable characters are not those of the raw input.
C26_WithoutSourceWitness ==
    /\ OriginalReturned
    /\ ~call.phone_number.country_code_source.some
    /\ ret.formatted.ok
    /\ ret.formatted.value = format(call.phone_number, "National")
    /\ ~KeepsDiallable

\* ---------------------------------------------------------------------
\* Construction of the store from the metadata records in any order.

\* A second region of the calling code of US and BS that is not its main
\* region, and a record of the unknown region with the same calling code.
BuildCA == [BS EXCEPT !.id = "CA"]

BuildZZ == [BS EXCEPT !.id = UnknownRegion]

BuildRecords == {BS, US, BuildCA, GB, UN001, BuildZZ}

\* The records in every order.
BuildCollections ==
    {collection \in [1 .. Cardinality(BuildRecords) -> BuildRecords] :
        \A i, j \in DOMAIN collection : collection[i] = collection[j] => i = j}

\* Calling codes looked up: those of the records and two of no record.
BuildCodes == {0, 1, 7, 44, 800, 999}

InitBuild ==
    /\ call \in [op : {"new_for_metadata"}, metadata_collection : BuildCollections]
    /\ ret = Pending
    /\ StoreUnused
    /\ CacheUnused

NewForMetadata ==
    /\ call.op = "new_for_metadata"
    /\ ret = Pending
    /\ store' = new_for_metadata(call.metadata_collection)
    /\ ret' = [constructed |-> TRUE]
    /\ UNCHANGED <<call, cache_vars>>

NextBuild == NewForMetadata

SpecBuild == InitBuild /\ [][NextBuild]_vars

Built == call.op = "new_for_metadata" /\ ret # Pending

\* The records that are not of the unknown region.
KnownRecords ==
    {call.metadata_collection[i] : i \in DOMAIN call.metadata_collection}
        \ {metadata \in BuildRecords : metadata.id = UnknownRegion}

CodeIndex == store.country_calling_code_to_region_code_map

\* Each calling code of the records is in the index once, and no other.
EachCodeOnce ==
    /\ \A i, j \in DOMAIN CodeIndex : CodeIndex[i].code = CodeIndex[j].code => i = j
    /\ {CodeIndex[i].code : i \in DOMAIN CodeIndex}
           = {metadata.country_code : metadata \in KnownRecords}

AscendingByCode ==
    \A i, j \in DOMAIN CodeIndex : i < j => CodeIndex[i].code < CodeIndex[j].code

\* The lookup finds the region list of a calling code exactly when a record
\* has the code, and the list holds the regions of the records with the code.
LookupFindsPresent ==
    \A code \in BuildCodes :
        LET region_codes == get_region_codes_for_country_calling_code(code)
            of_code == {metadata.id : metadata \in
                           {known \in KnownRecords : known.country_code = code}}
        IN  /\ region_codes.some <=> of_code # {}
            /\ region_codes.some =>
                   /\ {region_codes.value[i] : i \in DOMAIN region_codes.value} = of_code
                   /\ Len(region_codes.value) = Cardinality(of_code)

UnknownInNoMap ==
    /\ UnknownRegion \notin DOMAIN store.region_to_metadata_map
    /\ UnknownRegion \notin store.nanpa_regions
    /\ \A code \in DOMAIN store.country_code_to_non_geographical_metadata_map :
           store.country_code_to_non_geographical_metadata_map[code].id # UnknownRegion
    /\ \A i \in DOMAIN CodeIndex :
           \A k \in DOMAIN CodeIndex[i].regions : CodeIndex[i].regions[k] # UnknownRegion

MainRegionFirst ==
    \A metadata \in KnownRecords :
        metadata.main_country_for_code =>
            /\ get_region_codes_for_country_calling_code(metadata.country_code).some
            /\ Head(get_region_codes_for_country_calling_code(metadata.country_code).value)
                   = metadata.id
            /\ get_region_code_for_country_code(metadata.country_code) = metadata.id

\* C27: after the store is constructed from the metadata records in any
\* order, each calling code is in the index exactly once, the index is sorted
\* ascending by calling code and the binary-search lookup finds exactly the
\* codes present, the record of the unknown region is in no map, and the
\* region flagged main_country_for_code is first in the list of its code, so
\* that get_region_code_for_country_code returns it.
C27_IndexInvariants ==
    Built => /\ EachCodeOnce
             /\ AscendingByCode
             /\ LookupFindsPresent
             /\ UnknownInNoMap
             /\ MainRegionFirst

\* The position of the record of a region in the collection.
PositionOf(region_code) ==
    CHOOSE i \in DOMAIN call.metadata_collection :
        call.metadata_collection[i].id = region_code

\* The store was constructed from a collection in which the main region of
\* calling code 1 comes after two other regions of the code and after the
\* record of the unknown region, and the records are not in the order of
\* their calling codes.
C27_Witness ==
    /\ Built
    /\ PositionOf("BS") < PositionOf("US")
    /\ PositionOf("CA") < PositionOf("US")
    /\ PositionOf(UnknownRegion) < PositionOf("BS")
    /\ PositionOf("001") < PositionOf("GB")
    /\ PositionOf("GB") < PositionOf(UnknownRegion)
    /\ get_region_code_for_country_code(1) = "US"
    /\ Len(CodeIndex) = 3

\* ---------------------------------------------------------------------
\* The country code of a parsed number.

\* The last attempt at the calling code: the second one where it is made.
LastAttempt == IF RetryDue THEN SecondAttempt ELSE FirstAttempt

\* The calling code the resolution left in the number, 0 for none.
ResolvedCode == country_code(CallCountryCodeExtracted.value.phone_number)

\* C28: every number parse or parse_and_keep_raw_input returns successfully
\* has a non-zero country_code present in the store, which is the calling
\* code extracted from the number and resolved to a known region or else the
\* calling code of the metadata of the default region; an attempt that ends
\* with calling code 0 where the default region has no metadata gives no
\* successful result.
C28_KnownCountryCode ==
    (ParseReturned /\ ResolutionReached) =>
        /\ ret.ok =>
               /\ country_code(ret.value) # 0
               /\ has_valid_country_calling_code(country_code(ret.value))
               /\ get_region_codes_for_country_calling_code(country_code(ret.value)).some
               /\ CallCountryCodeExtracted.ok
               /\ IF ResolvedCode # 0
                  THEN /\ country_code(ret.value) = ResolvedCode
                       /\ get_region_code_for_country_code(ResolvedCode) # UnknownRegion
                  ELSE /\ get_metadata_for_region(call.default_region).some
                       /\ country_code(ret.value)
                              = get_metadata_for_region(call.default_region).value.country_code
        /\ (/\ LastAttempt.result.ok
            /\ country_code(LastAttempt.phone_number) = 0
            /\ ~get_metadata_for_region(call.default_region).some) => ~ret.ok

\* A number was returned with the calling code extracted from it, which is
\* not that of the default region.
C28_Witness ==
    /\ ParseReturned
    /\ ret.ok
    /\ ResolvedCode # 0
    /\ country_code(ret.value) = ResolvedCode
    /\ get_metadata_for_region(call.default_region).some
    /\ ResolvedCode # get_metadata_for_region(call.default_region).value.country_code

\* A number was returned with the calling code of the default region.
C28_DefaultWitness ==
    /\ ParseReturned
    /\ ret.ok
    /\ ResolvedCode = 0
    /\ country_code(ret.value)
           = get_metadata_for_region(call.default_region).value.country_code

\* A number was returned for a default region without metadata.
C28_WithoutDefaultWitness ==
    /\ ParseReturned
    /\ ret.ok
    /\ ~get_metadata_for_region(call.default_region).some
    /\ country_code(ret.value) = ResolvedCode

\* The last attempt ended with calling code 0 for a default region without
\* metadata, and the parse failed.
C28_ZeroWitness ==
    /\ ParseReturned
    /\ ResolutionReached
    /\ LastAttempt.result.ok
    /\ country_code(LastAttempt.phone_number) = 0
    /\ ~get_metadata_for_region(call.default_region).some
    /\ ~ret.ok

\* ---------------------------------------------------------------------
\* The loop of truncate_too_long_number, one iteration at a time.

MaxIterations == 20

LoopCountryCodes == {None, Some(1), Some(44), Some(999)}

\* National numbers of one to twenty digits, the greatest 64-bit value among
\* them.
LoopNationalNumbers ==
    {None, Some(<<"0">>), Some(<<"2", "3", "4", "5">>),
     Some(<<"2", "3", "4", "5", "6", "7">>),
     Some(<<"7", "1", "2", "3", "4", "5", "6">>),
     Some(<<"1">> \o Repeat("0", 19)),
     Some(<<"1", "8", "4", "4", "6", "7", "4", "4", "0", "7", "3", "7", "0", "9",
            "5", "5", "1", "6", "1", "5">>)}

LoopNumbers ==
    {[PhoneNumber_new EXCEPT !.country_code = code, !.national_number = national] :
        code \in LoopCountryCodes, national \in LoopNationalNumbers}

InitLoop ==
    /\ store = new_for_metadata(metadata_collection)
    /\ call \in [op : {"truncate_too_long_number"}, phone_number : LoopNumbers]
    /\ ret = Pending
    /\ CacheUnused

LoopDone(result, phone_number, iterations) ==
    [pc |-> "done", result |-> result, phone_number |-> phone_number,
     iterations |-> iterations]

\* The test of the number as it is given, before the loop: the call returns,
\* or the loop is entered with a copy of the number.
BeforeLoop(phone_number) ==
    Let(is_valid_number(phone_number), LAMBDA valid :
        IF ~valid.ok THEN LoopDone(valid, phone_number, 0)
        ELSE IF valid.value THEN LoopDone(Ok(TRUE), phone_number, 0)
        ELSE [pc |-> "divide", number_copy |-> phone_number,
              national_number |-> national_number(phone_number),
              iterations |-> 0])

\* The head of an iteration: the national number is divided by ten and set
\* in the copy.
Divided(loop) ==
    [pc |-> "test",
     number_copy |-> [loop.number_copy EXCEPT
                          !.national_number = Some(U64Div10(loop.national_number))],
     national_number |-> U64Div10(loop.national_number),
     iterations |-> loop.iterations + 1]

\* The rest of the iteration: the call returns false for a copy that is too
\* short or 0, true with the national number of a valid copy, or the loop
\* goes on.
Tested(phone_number, loop) ==
    IF \/ is_possible_number_with_reason(loop.number_copy) = "TooShort"
       \/ loop.national_number = <<"0">>
    THEN LoopDone(Ok(FALSE), phone_number, loop.iterations)
    ELSE Let(is_valid_number(loop.number_copy), LAMBDA valid :
             IF ~valid.ok THEN LoopDone(valid, phone_number, loop.iterations)
             ELSE IF valid.value
             THEN LoopDone(Ok(TRUE),
                           [phone_number EXCEPT
                                !.national_number = Some(loop.national_number)],
                           loop.iterations)
             ELSE [loop EXCEPT !.pc = "divide"])

LoopAt(pc) ==
    /\ call.op = "truncate_too_long_number"
    /\ "pc" \in DOMAIN ret
    /\ ret.pc = pc

TruncateEnter ==
    /\ call.op = "truncate_too_long_number"
    /\ ret = Pending
    /\ ret' = BeforeLoop(call.phone_number)
    /\ UNCHANGED <<call, cache_vars, store>>

TruncateDivide ==
    /\ LoopAt("divide")
    /\ ret.iterations < MaxIterations
    /\ ret' = Divided(ret)
    /\ UNCHANGED <<call, cache_vars, store>>

TruncateTest ==
    /\ LoopAt("test")
    /\ ret' = Tested(call.phone_number, ret)
    /\ UNCHANGED <<call, cache_vars, store>>

NextLoop == TruncateEnter \/ TruncateDivide \/ TruncateTest

\* A step that can be made is made: weak fairness of each step. For the two
\* steps that validate a number it is written out with the guard of the step
\* in the place of ENABLED; each is a function of the state that changes ret
\* wherever its guard holds.
LoopFairness ==
    /\ WF_vars(TruncateDivide)
    /\ []<>(ret # Pending) \/ []<><<TruncateEnter>>_vars
    /\ []<>~LoopAt("test") \/ []<><<TruncateTest>>_vars

SpecLoop == InitLoop /\ [][NextLoop]_vars /\ LoopFairness

LoopReturned == LoopAt("done")

\* The decimal digits of the national number given.
OriginalDigits == Len(national_number(call.phone_number))

\* No more iterations are made than the national number given has digits,
\* each one leaves the national number without its last digit, and 0 is not
\* carried into a further iteration.
LoopBounded ==
    (call.op = "truncate_too_long_number" /\ ret # Pending) =>
        /\ ret.iterations <= OriginalDigits
        /\ OriginalDigits <= MaxIterations
        /\ ~LoopReturned =>
               /\ ret.national_number
                      = IF ret.iterations = OriginalDigits THEN <<"0">>
                        ELSE SubSeq(national_number(call.phone_number), 1,
                                    OriginalDigits - ret.iterations)
               /\ national_number(ret.number_copy) = ret.national_number
               /\ LoopAt("divide") =>
                      /\ ret.iterations < OriginalDigits
                      /\ ret.national_number # <<"0">> \/ ret.iterations = 0
        /\ LoopReturned =>
               [result |-> ret.result, phone_number |-> ret.phone_number]
                   = truncate_too_long_number(call.phone_number)

\* C29: truncate_too_long_number always terminates: each iteration removes
\* the last decimal digit of national_number and the loop exits no later
\* than the iteration in which national_number becomes 0, so that there are
\* at most as many iterations as the national number given has decimal
\* digits, 20 at most.
C29_TruncateTerminates == []LoopBounded /\ <>LoopReturned

\* The loop returned false in its twentieth iteration, in which the national
\* number became 0.
C29_Witness ==
    /\ LoopReturned
    /\ ret.iterations = 20
    /\ OriginalDigits = 20
    /\ ret.result = Ok(FALSE)

\* The loop returned true after more than one iteration.
C29_FoundWitness ==
    /\ LoopReturned
    /\ ret.iterations > 1
    /\ ret.result = Ok(TRUE)

\* ---------------------------------------------------------------------
\* The strings extract_country_code is applied to while parsing.

\* Numbers behind a plus sign or an international prefix that leave two,
\* three and more digits, also behind a plus sign that is stripped for a
\* second attempt, with digits and a plus sign that are not ASCII, and
\* numbers without a prefix.
InvokeNumbers ==
    {<<"0", "1", "1", "1", "2">>,
     <<"+", "0", "1", "1", "1", "2">>,
     <<"+", "4", "4", "U+FF12">>,
     <<"+", "4", "4", "U+FF12", "3", "4", "5">>,
     <<"U+FF0B", "1", "U+FF12", "3", "4", "5">>,
     <<"+", "0", "1", "1", "9", "9", "9", "7", "7", "7", "7">>,
     <<"+", "0", "1", "1", "4", "4", "2", "3", "4", "5">>,
     <<"0", "1", "1", "U+0665", "U+06F0", "7", "7", "7">>,
     <<"0", "0", "4", "4", "7">>,
     <<"+", "1", "7", "7", "7", "7">>,
     <<"+", "9", "9", "9", "7", "7", "7", "7">>,
     <<"7", "7", "7", "7">>}

InvokeCalls ==
    [op : {"parse", "parse_and_keep_raw_input"},
     number_to_parse : InvokeNumbers,
     default_region : DefaultRegions]

InitInvoke ==
    /\ call \in InvokeCalls
    /\ ret = Pending
    /\ store = new_for_metadata(metadata_collection)
    /\ CacheUnused

SpecInvoke == InitInvoke /\ [][NextParse]_vars

\* The string of an attempt without its plus sign or international prefix,
\* normalized, and the source of its calling code.
Prepared(number) ==
    maybe_strip_international_prefix_and_normalize(
        number,
        IF get_metadata_for_region(call.default_region).some
        THEN get_metadata_for_region(call.default_region).value.international_prefix
        ELSE "NonMatch")

\* The attempt on the string went on to extract_country_code: the number is
\* not taken to be of the default country, and the attempt did not end with
\* TooShortAfterIdd.
Invoked(attempt, number) ==
    /\ Prepared(number).country_code_source # "FROM_DEFAULT_COUNTRY"
    /\ attempt.result # Err("TooShortAfterIdd")

\* The string has three ASCII digits or more and nothing else, its prefixes
\* of one to three characters lie within it, and extract_country_code does
\* not fail on it.
SafeToExtract(string) ==
    /\ Len(string) >= 3
    /\ \A k \in DOMAIN string : string[k] \in AsciiDigits
    /\ \A i \in 1 .. MAX_LENGTH_COUNTRY_CODE : SliceInBounds(string, 0, i)
    /\ extract_country_code(string) # Panicked

\* C30: while parsing, extract_country_code is applied only to a normalized
\* string of ASCII digits of at least three characters, in the first attempt
\* and in the attempt made after stripping the plus sign, the test that
\* returns TooShortAfterIdd coming first; its slices of one to three
\* characters lie within the string, and parsing does not panic.
C30_ExtractOnThreeDigits ==
    (ParseReturned /\ ResolutionReached) =>
        /\ Invoked(FirstAttempt, ExtensionStripped) =>
               SafeToExtract(Prepared(ExtensionStripped).phone_number)
        /\ (RetryDue /\ Invoked(SecondAttempt, PlusRemoved(ExtensionStripped))) =>
               SafeToExtract(Prepared(PlusRemoved(ExtensionStripped)).phone_number)
        /\ FirstAttempt.result # Panicked
        /\ RetryDue => SecondAttempt.result # Panicked
        /\ ret # Panicked

\* extract_country_code was applied to a string of exactly three digits, one
\* of them written as a digit that is not ASCII.
C30_Witness ==
    /\ ParseReturned
    /\ ResolutionReached
    /\ Invoked(FirstAttempt, ExtensionStripped)
    /\ Len(Prepared(ExtensionStripped).phone_number) = 3
    /\ \E k \in DOMAIN ExtensionStripped : ExtensionStripped[k] \notin AsciiDigits \cup PLUS_CHARS

\* extract_country_code was applied in the second attempt.
C30_RetryWitness ==
    /\ ParseReturned
    /\ ResolutionReached
    /\ RetryDue
    /\ Invoked(SecondAttempt, PlusRemoved(ExtensionStripped))

\* The second attempt ended with TooShortAfterIdd before extract_country_code.
C30_TooShortWitness ==
    /\ ParseReturned
    /\ ResolutionReached
    /\ RetryDue
    /\ Len(Prepared(PlusRemoved(ExtensionStripped)).phone_number) = 2
    /\ ret = Err("TooShortAfterIdd")
=============================================================================
